---------------------------- MODULE Spec2Model ----------------------------
(***************************************************************************)
(* A state-machine model of the scryer-prolog engine driver                *)
(* (src/src/prolog/machine/mod.rs), of the top-level term rewriting        *)
(* (src/src/prolog/machine/toplevel.rs) and of the instruction semantics   *)
(* the driver steps through.                                               *)
(*                                                                         *)
(* Rust indices are kept as they are (0-based); a TLA+ sequence holding a  *)
(* Rust vector v is read at v[i + 1].                                      *)
(***************************************************************************)
EXTENDS Integers, Sequences, FiniteSets, TLC

(***************************************************************************)
(* Bounds of the model.                                                    *)
(***************************************************************************)
\* the longest fact-only predicate p/1 that is loaded
MaxClauses == 3

(***************************************************************************)
(* Atoms.                                                                  *)
(***************************************************************************)
Consts == {"c1", "c2", "c3"}
NoArg == "none"
VarX == "X"

\* a variable that occurs in one goal of a query only
VarT == "T"

(***************************************************************************)
(* Addr: a register, heap or stack cell value.                             *)
(***************************************************************************)
Con(c) == [t |-> "Con", c |-> c, h |-> 0, s |-> 0]
HeapCell(h) == [t |-> "HeapCell", c |-> "", h |-> h, s |-> 0]
StackCell(fr, sc) == [t |-> "StackCell", c |-> "", h |-> fr, s |-> sc]
\* the value of a register nothing was put in yet, and of a cut-level cell
Usize(n) == [t |-> "Usize", c |-> "", h |-> n, s |-> 0]

(***************************************************************************)
(* CodePtr.                                                                *)
(***************************************************************************)
TopLevel(cn, p) == [k |-> "TopLevel", cn |-> cn, p |-> p]
DirEntry(p) == [k |-> "DirEntry", cn |-> 0, p |-> p]
UserTermExpansion(p) == [k |-> "UserTermExpansion", cn |-> 0, p |-> p]
\* a built-in or call/N under way; p is the offset of the directory entry
\* the pointer carries
BuiltInClause(p) == [k |-> "BuiltInClause", cn |-> 0, p |-> p]
CallN(p) == [k |-> "CallN", cn |-> 0, p |-> p]

IsLocal(ptr) == ptr.k \in {"TopLevel", "DirEntry", "UserTermExpansion"}

\* p += n
PtrAdd(ptr, n) == [ptr EXCEPT !.p = @ + n]

\* PartialOrd of CodePtr, as run_query's `self.ms.p < end_ptr` uses it:
\* a directory entry is below every top-level pointer, two top-level
\* pointers compare by their offsets whatever their chunk numbers.
PtrLess(a, b) ==
    CASE a.k = "DirEntry" /\ b.k = "DirEntry" -> a.p < b.p
      [] a.k = "DirEntry" /\ b.k = "TopLevel" -> TRUE
      [] a.k = "TopLevel" /\ b.k = "TopLevel" -> a.p < b.p
      [] OTHER -> FALSE


(***************************************************************************)
(* Source clauses of the Prolog subset the engine is run on: predicates of *)
(* arity 0 or 1 over atoms, one variable X per clause.                     *)
(*   harg: NoArg (arity 0), VarX, or an atom.                              *)
(*   a goal is a call, a cut, throw(Ball) or catch(Goal, Catcher, Rec).    *)
(***************************************************************************)
Clause(name, harg, body) == [name |-> name, harg |-> harg, body |-> body]
CallG(name, arg) ==
    [g |-> "call", name |-> name, arg |-> arg, catcher |-> NoArg,
     rec |-> "", rarg |-> NoArg]
CutG ==
    [g |-> "cut", name |-> "!", arg |-> NoArg, catcher |-> NoArg,
     rec |-> "", rarg |-> NoArg]
ThrowG(ball) ==
    [g |-> "throw", name |-> "throw", arg |-> ball, catcher |-> NoArg,
     rec |-> "", rarg |-> NoArg]
CatchG(name, arg, catcher, rec, rarg) ==
    [g |-> "catch", name |-> name, arg |-> arg, catcher |-> catcher,
     rec |-> rec, rarg |-> rarg]

Arity(harg) == IF harg = NoArg THEN 0 ELSE 1

(***************************************************************************)
(* Line: one entry of a Code vector.  kind is the Line variant that        *)
(* execute_instr dispatches on, op the instruction, x an atom operand,     *)
(* n a numeric operand; pr/cl name the predicate and the clause (1-based,  *)
(* 0: none) the line was compiled from.                                    *)
(***************************************************************************)
Line(kind, op, x, n) == [kind |-> kind, op |-> op, x |-> x, n |-> n, pr |-> "", cl |-> 0]

Tag(lines, pr, cl) ==
    [i \in 1..Len(lines) |-> [lines[i] EXCEPT !.pr = pr, !.cl = cl]]

\* the instruction kinds run_query treats as the start of a new chunk
is_jump_instr(line) == line.kind = "Control" /\ line.op \in {"Call", "Execute", "JmpBy"}

\* put the argument of a call into A1 (nothing for arity 0).  mode says
\* where the clause keeps X: "perm" (cell Y1 of its frame), "keep" (X is
\* the head argument and still sits in A1), "fresh" (a new heap variable)
PutArg(arg, mode) ==
    IF arg = NoArg THEN <<>>
    ELSE IF arg = VarT THEN <<Line("Query", "PutVariableX", "", 1)>>
    ELSE IF arg = VarX
         THEN CASE mode = "perm" -> <<Line("Query", "PutValueY", "", 1)>>
                [] mode = "fresh" -> <<Line("Query", "PutVariableX", "", 1)>>
                [] OTHER -> <<>>
         ELSE <<Line("Query", "PutConstant", arg, 1)>>

\* the head of a clause against A1
GetArg(harg, env) ==
    IF harg = NoArg THEN <<>>
    ELSE IF harg = VarX
         THEN IF env THEN <<Line("Fact", "GetVariableY", "", 1)>>
                     ELSE <<Line("Fact", "Void", "", 1)>>
         ELSE <<Line("Fact", "GetConstant", harg, 1)>>

\* catch(Goal, Catcher, Recovery), compiled in line:
\*     install_new_block L2 ; call Goal ; end_block ; jmp_by past Recovery ;
\* L1: reinstall_block   (backtracking into Goal: the block is set again)
\* L2: catch_handler     (the handler's choice point is left) ;
\*     get_ball Catcher  (the ball against Catcher) ; call Recovery
CompileCatch(g) ==
    LET goal == PutArg(g.arg, "perm")
                \o <<Line("Control", "Call", g.name, Arity(g.arg))>>
        recv == PutArg(g.rarg, "perm")
                \o <<Line("Control", "Call", g.rec, Arity(g.rarg))>>
    IN  <<Line("Choice", "InstallNewBlock", "", Len(goal) + 4)>>
        \o goal
        \o <<Line("Control", "EndBlock", "", 2),
             Line("Control", "JmpBy", "", Len(recv) + 4),
             Line("Choice", "ReinstallBlock", "", 0),
             Line("Choice", "CatchHandler", "", 0),
             Line("Control", "GetBall", g.catcher, 0)>>
        \o recv

RECURSIVE CompileGoals(_, _, _, _, _)
\* goals[i..]; env: the clause has an environment frame; mode: see PutArg;
\* tail: the clause is a rule (its last call is an execute), not a query
CompileGoals(goals, i, env, mode, tail) ==
    IF i > Len(goals) THEN <<>>
    ELSE
      LET g == goals[i]
          last == (i = Len(goals))
          dealloc == IF env THEN <<Line("Control", "Deallocate", "", 0)>> ELSE <<>>
          finish == IF last
                    THEN dealloc \o (IF tail THEN <<Line("Control", "Proceed", "", 0)>>
                                             ELSE <<>>)
                    ELSE <<>>
          here ==
            CASE g.g = "call" ->
                   IF last /\ tail
                   THEN PutArg(g.arg, mode) \o dealloc
                        \o <<Line("Control", "Execute", g.name, Arity(g.arg))>>
                   ELSE PutArg(g.arg, mode)
                        \o <<Line("Control", "Call", g.name, Arity(g.arg))>>
                        \o (IF last THEN dealloc ELSE <<>>)
              [] g.g = "cut" ->
                   (IF i = 1 /\ tail THEN <<Line("Cut", "NeckCut", "", 0)>>
                                     ELSE <<Line("Cut", "Cut", "", 2)>>)
                   \o finish
              [] g.g = "throw" ->
                   PutArg(g.arg, mode) \o <<Line("Control", "Throw", "", 1)>>
              [] OTHER ->
                   CompileCatch(g) \o finish
      IN  here \o CompileGoals(goals, i + 1, env, mode, tail)

HasDeepCut(goals, tail) ==
    \E i \in 1..Len(goals) : goals[i].g = "cut" /\ (i > 1 \/ ~tail)

NeedsEnv(goals) ==
    Len(goals) > 1 \/ \E i \in 1..Len(goals) : goals[i].g = "catch"

\* one clause: a fact is its head and proceed; a rule allocates a frame of
\* four permanent cells (Y1: X, Y2: the cut level, Y3/Y4: the blocks of a
\* catch) when its body has more than one goal
CompileClause(c) ==
    IF c.body = <<>>
    THEN GetArg(c.harg, FALSE) \o <<Line("Control", "Proceed", "", 0)>>
    ELSE LET env == NeedsEnv(c.body)
         IN  (IF env THEN <<Line("Control", "Allocate", "", 4)>> ELSE <<>>)
             \o (IF env /\ HasDeepCut(c.body, TRUE)
                 THEN <<Line("Cut", "GetLevel", "", 2)>> ELSE <<>>)
             \o GetArg(c.harg, env)
             \o CompileGoals(c.body, 1, env,
                               IF env THEN "perm"
                               ELSE IF c.harg = VarX THEN "keep" ELSE "fresh",
                               TRUE)

RECURSIVE CompileChain(_, _, _)
\* the variable arm of a predicate: try_me_else / retry_me_else / trust_me
\* around the clauses, in the order of `clauses`
CompileChain(clauses, i, pr) ==
    IF i > Len(clauses) THEN <<>>
    ELSE LET body == CompileClause(clauses[i])
             choice == IF Len(clauses) = 1 THEN <<>>
                       ELSE IF i = 1
                            THEN <<Line("Choice", "TryMeElse", "", Len(body) + 1)>>
                            ELSE IF i < Len(clauses)
                                 THEN <<Line("Choice", "RetryMeElse", "", Len(body) + 1)>>
                                 ELSE <<Line("Choice", "TrustMe", "", 0)>>
         IN  Tag(choice \o body, pr, i) \o CompileChain(clauses, i + 1, pr)

compile_predicate(clauses) == CompileChain(clauses, 1, clauses[1].name)

\* a query: the goals of a rule body without a head; the last call of a
\* query is a call, so that control returns to the end of the query
compile_query(goals) ==
    LET env == NeedsEnv(goals)
    IN  (IF env THEN <<Line("Control", "Allocate", "", 4)>> ELSE <<>>)
        \o (IF env /\ HasDeepCut(goals, FALSE)
            THEN <<Line("Cut", "GetLevel", "", 2)>> ELSE <<>>)
        \o CompileGoals(goals, 1, env, IF env THEN "perm" ELSE "fresh", FALSE)

(***************************************************************************)
(* MachineState.                                                           *)
(***************************************************************************)
\* Frame::new of the and-stack: n permanent cells, each an unbound
\* self-reference
Frame_new(global_index, fr, e, cp, n) ==
    [global_index |-> global_index, e |-> e, cp |-> cp,
     perms |-> [i \in 1..n |-> StackCell(fr, i)]]

\* AndStack::push numbering the new frame from one
AndStack_push_from_one(stack, global_index, e, cp, n) ==
    Append(stack, Frame_new(global_index, Len(stack) + 1, e, cp, n))

\* AndStack::push
AndStack_push(stack, global_index, e, cp, n) ==
    Append(stack, Frame_new(global_index, Len(stack), e, cp, n))

\* MachineState::new / MachineState::reset
MachineState_new ==
    [p |-> TopLevel(0, 0), cp |-> TopLevel(0, 0),
     b |-> 0, b0 |-> 0, e |-> 0, fail |-> FALSE,
     hb |-> 0, tr |-> 0, gi |-> 0, num_of_args |-> 0,
     heap |-> <<>>, trail |-> <<>>, a1 |-> Usize(0),
     or_stack |-> <<>>, and_stack |-> <<>>,
     ball |-> "", block |-> 0]

\* the heap top H
HeapTop(m) == Len(m.heap)

RECURSIVE Deref(_, _)
\* follow references to a constant or to an unbound (self-referencing) cell
Deref(m, a) ==
    CASE a.t = "HeapCell" ->
           LET v == m.heap[a.h + 1] IN IF v = a THEN a ELSE Deref(m, v)
      [] a.t = "StackCell" ->
           LET v == m.and_stack[a.h + 1].perms[a.s] IN IF v = a THEN a ELSE Deref(m, v)
      [] OTHER -> a

IsUnbound(a) == a.t \in {"HeapCell", "StackCell"}

\* store v in the cell a names
Store(m, a, v) ==
    IF a.t = "HeapCell"
    THEN [m EXCEPT !.heap[a.h + 1] = v]
    ELSE [m EXCEPT !.and_stack[a.h + 1].perms[a.s] = v]

\* the conditional trailing test: a heap cell older than HB, a stack cell
\* of a frame older than the newest choice point
MustTrail(m, a) ==
    IF a.t = "HeapCell"
    THEN a.h < m.hb
    ELSE m.b > 0 /\ m.and_stack[a.h + 1].global_index < m.or_stack[m.b].global_index

\* bind the unbound cell a to v, trailing it if a later backtrack must undo it
Bind(m, a, v) ==
    LET m1 == Store(m, a, v)
    IN  IF MustTrail(m, a)
        THEN [m1 EXCEPT !.trail = Append(@, a), !.tr = @ + 1]
        ELSE m1

\* unify the cell a with the atom c
UnifyCon(m, a, c) ==
    LET d == Deref(m, a)
    IN  IF IsUnbound(d) THEN Bind(m, d, Con(c))
        ELSE IF d = Con(c) THEN m
        ELSE [m EXCEPT !.fail = TRUE]

RECURSIVE unwind_trail(_, _, _)
\* reset the cells trailed at old_tr .. curr_tr - 1 to unbound
unwind_trail(m, old_tr, curr_tr) ==
    IF curr_tr <= old_tr THEN m
    ELSE LET a == m.trail[curr_tr]
         IN  unwind_trail(Store(m, a, a), old_tr, curr_tr - 1)

\* OrStack::truncate and the HB that goes with the new top choice point
TruncateOr(m, b) ==
    [m EXCEPT !.b = b, !.or_stack = SubSeq(@, 1, b),
              !.hb = IF b > 0 THEN m.or_stack[b].h ELSE 0]

\* push a choice point whose alternative is bp
PushChoice(m, bp) ==
    LET fr == [global_index |-> m.gi + 1, e |-> m.e, cp |-> m.cp, b |-> m.b,
               bp |-> bp, tr |-> m.tr, h |-> HeapTop(m), b0 |-> m.b0,
               args |-> IF m.num_of_args = 0 THEN <<>> ELSE <<m.a1>>]
    IN  [m EXCEPT !.or_stack = Append(@, fr), !.b = Len(m.or_stack) + 1,
                  !.gi = @ + 1, !.hb = HeapTop(m)]

\* what retry_me_else and trust_me share: the argument registers, E and CP
\* from the top choice point, the trail undone down to its TR, the heap
\* truncated to its H
RestoreFromChoice(m) ==
    LET fr == m.or_stack[m.b]
        m1 == unwind_trail(m, fr.tr, m.tr)
    IN  [m1 EXCEPT !.a1 = IF fr.args = <<>> THEN m.a1 ELSE fr.args[1],
                   !.num_of_args = Len(fr.args),
                   !.e = fr.e, !.cp = fr.cp,
                   !.tr = fr.tr, !.trail = SubSeq(@, 1, fr.tr),
                   !.heap = SubSeq(@, 1, fr.h), !.hb = fr.h]

\* '$unwind_stack' leaving the or-stack as it is
unwind_stack_keeps(m) == [m EXCEPT !.fail = TRUE]

\* '$unwind_stack': cut back to the catch block and fail
unwind_stack(m) == [TruncateOr(m, m.block) EXCEPT !.fail = TRUE]

(***************************************************************************)
(* The instructions.                                                       *)
(***************************************************************************)
\* code_dir lookup of a call: the IndexPtr of (name, arity), -1 if Undefined
IndexOf(dir, name, arity) ==
    IF <<name, arity>> \in DOMAIN dir THEN dir[<<name, arity>>] ELSE -1

execute_choice_instr(m, l) ==
    CASE l.op = "TryMeElse" ->
           [PushChoice(m, PtrAdd(m.p, l.n)) EXCEPT !.p = PtrAdd(m.p, 1)]
      [] l.op = "RetryMeElse" ->
           [RestoreFromChoice(m) EXCEPT !.or_stack[m.b].bp = PtrAdd(m.p, l.n),
                                        !.p = PtrAdd(m.p, 1)]
      [] l.op = "TrustMe" ->
           [TruncateOr(RestoreFromChoice(m), m.or_stack[m.b].b)
               EXCEPT !.p = PtrAdd(m.p, 1)]
      [] l.op = "InstallNewBlock" ->
           \* Y3 := the enclosing block; the handler's choice point; Y4 := B
           LET m1 == [m EXCEPT !.and_stack[m.e + 1].perms[3] = Usize(m.block),
                               !.num_of_args = 0]
               m2 == PushChoice(m1, PtrAdd(m.p, l.n))
           IN  [m2 EXCEPT !.block = m2.b,
                          !.and_stack[m.e + 1].perms[4] = Usize(m2.b),
                          !.p = PtrAdd(m.p, 1)]
      [] l.op = "ReinstallBlock" ->
           \* backtracking into Goal: the block of this catch is set again
           LET m1 == TruncateOr(RestoreFromChoice(m), m.or_stack[m.b].b)
           IN  [m1 EXCEPT !.block = m1.and_stack[m1.e + 1].perms[4].h,
                          !.fail = TRUE]
      [] OTHER ->
           \* CatchHandler: the handler's choice point is popped and the
           \* enclosing block set; without a ball this is plain failure
           LET m1 == TruncateOr(RestoreFromChoice(m), m.or_stack[m.b].b)
               m2 == [m1 EXCEPT !.block = m1.and_stack[m1.e + 1].perms[3].h]
           IN  IF m2.ball = "" THEN [m2 EXCEPT !.fail = TRUE]
               ELSE [m2 EXCEPT !.p = PtrAdd(m.p, 1)]

execute_cut_instr(m, l) ==
    CASE l.op = "NeckCut" ->
           [(IF m.b > m.b0 THEN TruncateOr(m, m.b0) ELSE m) EXCEPT !.p = PtrAdd(m.p, 1)]
      [] l.op = "GetLevel" ->
           [m EXCEPT !.and_stack[m.e + 1].perms[l.n] = Usize(m.b0),
                     !.p = PtrAdd(m.p, 1)]
      [] OTHER ->
           LET lvl == m.and_stack[m.e + 1].perms[l.n].h
           IN  [(IF m.b > lvl THEN TruncateOr(m, lvl) ELSE m) EXCEPT !.p = PtrAdd(m.p, 1)]

execute_ctrl_instr(m, l, dir) ==
    CASE l.op = "Allocate" ->
           [m EXCEPT !.and_stack = AndStack_push(@, m.gi + 1, m.e, m.cp, l.n),
                     !.gi = @ + 1,
                     !.e = Len(m.and_stack),
                     !.p = PtrAdd(m.p, 1)]
      [] l.op = "Deallocate" ->
           [m EXCEPT !.cp = m.and_stack[m.e + 1].cp,
                     !.e = m.and_stack[m.e + 1].e,
                     !.p = PtrAdd(m.p, 1)]
      [] l.op = "Call" ->
           IF IndexOf(dir, l.x, l.n) < 0 THEN [m EXCEPT !.fail = TRUE]
           ELSE [m EXCEPT !.cp = PtrAdd(m.p, 1), !.num_of_args = l.n,
                          !.b0 = m.b, !.p = DirEntry(IndexOf(dir, l.x, l.n))]
      [] l.op = "Execute" ->
           IF IndexOf(dir, l.x, l.n) < 0 THEN [m EXCEPT !.fail = TRUE]
           ELSE [m EXCEPT !.num_of_args = l.n,
                          !.b0 = m.b, !.p = DirEntry(IndexOf(dir, l.x, l.n))]
      [] l.op = "Proceed" -> [m EXCEPT !.p = m.cp]
      [] l.op = "CallClause" ->
           \* the built-in succeeds and control goes on after the local
           \* pointer the program counter carries
           [m EXCEPT !.p = DirEntry(m.p.p + 1)]
      [] l.op = "JmpBy" -> [m EXCEPT !.p = PtrAdd(m.p, l.n)]
      [] l.op = "EndBlock" ->
           \* the handler's choice point is dropped if it is on top; if Goal
           \* left choice points, one more is pushed that sets the block again
           LET nb == m.and_stack[m.e + 1].perms[4].h
               m1 == IF m.b = nb THEN TruncateOr(m, m.or_stack[m.b].b)
                     ELSE PushChoice([m EXCEPT !.num_of_args = 0], PtrAdd(m.p, l.n))
           IN  [m1 EXCEPT !.block = m.and_stack[m.e + 1].perms[3].h,
                          !.p = PtrAdd(m.p, 1)]
      [] l.op = "GetBall" ->
           \* the ball against the catcher: taken if they unify, thrown
           \* again to the enclosing block if not
           LET m1 == IF l.x = NoArg THEN m
                     ELSE IF l.x = VarX
                          THEN UnifyCon(m, m.and_stack[m.e + 1].perms[1], m.ball)
                          ELSE IF l.x = m.ball THEN m ELSE [m EXCEPT !.fail = TRUE]
           IN  IF m1.fail THEN unwind_stack(m)
               ELSE [m1 EXCEPT !.ball = "", !.p = PtrAdd(m.p, 1)]
      [] OTHER ->
           \* Throw: the ball is copied to the stub, then the stack unwinds
           unwind_stack([m EXCEPT !.ball = Deref(m, m.a1).c])

execute_fact_instr(m, l) ==
    CASE l.op = "GetConstant" -> UnifyCon(m, m.a1, l.x)
      [] l.op = "GetVariableY" -> [m EXCEPT !.and_stack[m.e + 1].perms[l.n] = m.a1]
      [] OTHER -> m

execute_query_instr(m, l) ==
    CASE l.op = "PutConstant" -> [m EXCEPT !.a1 = Con(l.x)]
      [] l.op = "PutValueY" -> [m EXCEPT !.a1 = m.and_stack[m.e + 1].perms[l.n]]
      [] OTHER ->
           [m EXCEPT !.heap = Append(@, HeapCell(HeapTop(m))), !.a1 = HeapCell(HeapTop(m))]

(***************************************************************************)
(* TopLevel entries and merge_clauses.                                     *)
(***************************************************************************)
\* TopLevel::Fact / TopLevel::Rule of one clause
TopLevelOf(c) ==
    [kind |-> IF c.body = <<>> THEN "Fact" ELSE "Rule",
     name |-> c.name, arity |-> Arity(c.harg), clauses |-> <<c>>]

\* PredicateClause::arity: of a clause of the engine's programs, or of a
\* rule the top level fabricated
ClauseArity(c) == IF "harg" \in DOMAIN c THEN Arity(c.harg) ELSE Len(c.args)

is_consistent(tl, clauses) ==
    IF clauses = <<>> THEN TRUE
    ELSE tl.name = clauses[1].name /\ tl.arity = ClauseArity(clauses[1])

RECURSIVE merge_loop_prepends(_, _)
\* the loop of merge_clauses putting each clause before those it has
merge_loop_prepends(tls, clauses) ==
    IF tls = <<>> THEN [ret |-> "end", clauses |-> clauses, tls |-> tls]
    ELSE LET tl == Head(tls)
             rest == Tail(tls)
         IN  CASE tl.kind = "Query" /\ clauses = <<>> /\ rest = <<>> ->
                    [ret |-> "tl", clauses |-> clauses, tls |-> rest]
               [] tl.kind = "Declaration" /\ clauses = <<>> ->
                    [ret |-> "tl", clauses |-> clauses, tls |-> rest]
               [] tl.kind = "Query" ->
                    [ret |-> "err", clauses |-> clauses, tls |-> rest]
               [] tl.kind \in {"Fact", "Rule", "Predicate"}
                  /\ is_consistent(tl, clauses) ->
                    merge_loop_prepends(rest, tl.clauses \o clauses)
               [] OTHER ->
                    [ret |-> "end", clauses |-> clauses, tls |-> tls]

RECURSIVE merge_loop(_, _)
\* the `while let Some(tl) = tls.pop_front()` loop of merge_clauses
merge_loop(tls, clauses) ==
    IF tls = <<>> THEN [ret |-> "end", clauses |-> clauses, tls |-> tls]
    ELSE LET tl == Head(tls)
             rest == Tail(tls)
         IN  CASE tl.kind = "Query" /\ clauses = <<>> /\ rest = <<>> ->
                    [ret |-> "tl", clauses |-> clauses, tls |-> rest]
               [] tl.kind = "Declaration" /\ clauses = <<>> ->
                    [ret |-> "tl", clauses |-> clauses, tls |-> rest]
               [] tl.kind = "Query" ->
                    [ret |-> "err", clauses |-> clauses, tls |-> rest]
               [] tl.kind \in {"Fact", "Rule", "Predicate"}
                  /\ is_consistent(tl, clauses) ->
                    merge_loop(rest, clauses \o tl.clauses)
               [] OTHER ->
                    [ret |-> "end", clauses |-> clauses, tls |-> tls]

\* [ok, pred: the clauses of the merged predicate, tls: the queue left]
merge_clauses(tls) ==
    LET r == merge_loop(tls, <<>>)
    IN  IF r.ret = "end"
        THEN [ok |-> r.clauses # <<>>, pred |-> r.clauses, tls |-> r.tls]
        ELSE [ok |-> r.ret = "tl", pred |-> <<>>, tls |-> r.tls]

RECURSIVE LoadQueue(_, _, _)
\* every predicate of the queue compiled and entered in the code
\* directory, a later definition of a key replacing an earlier one
LoadQueue(tls, code, dir) ==
    IF tls = <<>> THEN [code |-> code, dir |-> dir]
    ELSE LET r == merge_clauses(tls)
             key == <<r.pred[1].name, ClauseArity(r.pred[1])>>
         IN  LoadQueue(r.tls, code \o compile_predicate(r.pred),
                       [k \in DOMAIN dir \cup {key} |->
                           IF k = key THEN Len(code) ELSE dir[k]])

EmptyMap == [v \in {} |-> Usize(0)]

LoadProgram(clauses) ==
    LoadQueue([i \in 1..Len(clauses) |-> TopLevelOf(clauses[i])], <<>>, EmptyMap)

(***************************************************************************)
(* The top level: terms to query terms (toplevel.rs).                      *)
(***************************************************************************)
\* Term
Atom(a) == [k |-> "Atom", name |-> a, args |-> <<>>]
Var(v) == [k |-> "Var", name |-> v, args |-> <<>>]
Cl(name, args) == [k |-> "Clause", name |-> name, args |-> args]

IsClause(term, name, n) ==
    term.k = "Clause" /\ term.name = name /\ Len(term.args) = n

RECURSIVE unfold_by_str(_, _)
\* a , (b , c)  to  <<a, b, c>>
unfold_by_str(term, sym) ==
    IF IsClause(term, sym, 2)
    THEN <<term.args[1]>> \o unfold_by_str(term.args[2], sym)
    ELSE <<term>>

RECURSIVE fold_by_str(_, _, _)
\* <<a, b>>, c  to  a , (b , c)
fold_by_str(terms, term, sym) ==
    IF terms = <<>> THEN term
    ELSE Cl(sym, <<Head(terms), fold_by_str(Tail(terms), term, sym)>>)

\* fold_by_str of all but the last term onto the last
FoldAll(terms, sym) ==
    fold_by_str(SubSeq(terms, 1, Len(terms) - 1), terms[Len(terms)], sym)

mark_cut_variables_as(terms, name) ==
    [i \in 1..Len(terms) |->
        IF terms[i] = Atom("!") THEN Atom(name) ELSE terms[i]]

\* mark_cut_variable naming the cut blocked_! as mark_cut_variables_as does
mark_cut_variable_blocks(term) ==
    IF term = Atom("!") THEN Atom("blocked_!") ELSE term

\* the term mark_cut_variable leaves
mark_cut_variable(term) ==
    IF term = Atom("!") THEN Var("!") ELSE term

mark_cut_variables(terms) ==
    [i \in 1..Len(terms) |-> mark_cut_variable(terms[i])]

check_for_internal_if_then(terms) ==
    IF Len(terms) # 1 THEN terms
    ELSE IF ~IsClause(terms[1], "->", 2) THEN terms
    ELSE LET conq_terms == unfold_by_str(terms[1].args[2], ",")
             pre_cut_terms == unfold_by_str(terms[1].args[1], ",")
         IN  <<FoldAll(pre_cut_terms \o <<Atom("blocked_!")>> \o conq_terms, ",")>>

RECURSIVE VarsOf(_, _)
\* the variables of a term in post order, each once, after those of acc
VarsOf(term, acc) ==
    CASE term.k = "Var" ->
           IF \E i \in 1..Len(acc) : acc[i] = term.name THEN acc
           ELSE Append(acc, term.name)
      [] term.k = "Clause" ->
           IF term.args = <<>> THEN acc
           ELSE VarsOf(Cl(term.name, Tail(term.args)), VarsOf(Head(term.args), acc))
      [] OTHER -> acc

compute_head(term) ==
    LET vs == VarsOf(Var("!"), VarsOf(term, <<>>))
    IN  [i \in 1..Len(vs) |-> Var(vs[i])]

fabricate_rule_body(vs, body_term) ==
    Cl(":-", <<Cl("", vs), body_term>>)

\* fabricate_*: [stub: the JumpStub, clauses: the terms queued]
fabricate_rule(body_term) ==
    [stub |-> compute_head(body_term),
     clauses |-> <<fabricate_rule_body(compute_head(body_term), body_term)>>]

fabricate_disjunct(body_term) ==
    LET branches == unfold_by_str(body_term, ";")
        clause(term) ==
            FoldAll(check_for_internal_if_then(
                        mark_cut_variables(unfold_by_str(term, ","))), ",")
    IN  [stub |-> compute_head(body_term),
         clauses |-> [i \in 1..Len(branches) |->
                         fabricate_rule_body(compute_head(body_term),
                                             clause(branches[i]))]]

\* fabricate_if_then leaving the cuts of the consequent as written
fabricate_if_then_unmarked(prec, conq) ==
    LET prec_seq == mark_cut_variables_as(
                        unfold_by_str(prec, ",") \o <<Atom("!")>>, "blocked_!")
        conq_seq == unfold_by_str(conq, ",")
    IN  fabricate_rule(FoldAll(prec_seq \o conq_seq, ","))

fabricate_if_then(prec, conq) ==
    LET prec_seq == mark_cut_variables_as(
                        unfold_by_str(prec, ",") \o <<Atom("!")>>, "blocked_!")
        conq_seq == mark_cut_variables(unfold_by_str(conq, ","))
    IN  fabricate_rule(FoldAll(prec_seq \o conq_seq, ","))

\* QueryTerm
QueryTerm(qt, name, n) == [qt |-> qt, name |-> name, n |-> n]

\* [qt: the QueryTerm, push: what is pushed on the back of self.queue]
to_query_term(term) ==
    CASE term.k = "Atom" ->
           IF term.name = "!" \/ term.name = "blocked_!"
           THEN [qt |-> QueryTerm("BlockedCut", "", 0), push |-> <<>>]
           ELSE [qt |-> QueryTerm("Clause", term.name, 0), push |-> <<>>]
      [] term.k = "Var" /\ term.name = "!" ->
           [qt |-> QueryTerm("UnblockedCut", "", 0), push |-> <<>>]
      [] IsClause(term, ";", 2) ->
           [qt |-> QueryTerm("Jump", "", Len(fabricate_disjunct(term).stub)),
            push |-> <<fabricate_disjunct(term).clauses>>]
      [] IsClause(term, "->", 2) ->
           LET f == fabricate_if_then(term.args[1], term.args[2])
           IN  [qt |-> QueryTerm("Jump", "", Len(f.stub)), push |-> <<f.clauses>>]
      [] term.k = "Clause" ->
           [qt |-> QueryTerm("Clause", term.name, Len(term.args)), push |-> <<>>]
      [] OTHER ->
           [qt |-> QueryTerm("CallN", term.name, 1), push |-> <<>>]

\* the work queue prepend_if_then leaves
prepend_if_then(prec, conq, queue, blocks_cuts) ==
    LET terms_seq == unfold_by_str(prec, ",") \o <<Atom("blocked_!")>>
        conq_seq == IF ~blocks_cuts
                    THEN mark_cut_variables(unfold_by_str(conq, ","))
                    ELSE unfold_by_str(conq, ",")
    IN  terms_seq \o conq_seq \o queue

RECURSIVE QueryTermsOf(_, _, _, _)
\* the `for subterm in unfold_by_str(term, ",")` loop of setup_query
QueryTermsOf(subterms, query_terms, queue, blocks_cuts) ==
    IF subterms = <<>> THEN [qts |-> query_terms, queue |-> queue]
    ELSE LET subterm == IF ~blocks_cuts THEN mark_cut_variable(Head(subterms))
                                        ELSE Head(subterms)
             r == to_query_term(subterm)
         IN  QueryTermsOf(Tail(subterms), Append(query_terms, r.qt),
                          queue \o r.push, blocks_cuts)

RECURSIVE setup_query_loop(_, _, _, _)
setup_query_loop(work_queue, query_terms, queue, blocks_cuts) ==
    IF work_queue = <<>> THEN [qts |-> query_terms, queue |-> queue]
    ELSE LET term == Head(work_queue)
             rest == Tail(work_queue)
         IN  IF query_terms = <<>> /\ rest = <<>> /\ IsClause(term, "->", 2)
             THEN setup_query_loop(
                      prepend_if_then(term.args[1], term.args[2], rest, blocks_cuts),
                      query_terms, queue, blocks_cuts)
             ELSE LET r == QueryTermsOf(unfold_by_str(term, ","), query_terms,
                                        queue, blocks_cuts)
                  IN  setup_query_loop(rest, r.qts, r.queue, blocks_cuts)

\* [qts: the query terms, queue: self.queue afterwards]
setup_query(terms, queue, blocks_cuts) ==
    setup_query_loop(terms, <<>>, queue, blocks_cuts)

\* [rule: the Rule, queue: self.queue afterwards] for head :- body
setup_rule(terms, queue, blocks_cuts) ==
    LET r == setup_query(Tail(terms), queue, blocks_cuts)
    IN  [rule |-> [name |-> terms[1].name, args |-> terms[1].args,
                   qt |-> r.qts[1], clauses |-> Tail(r.qts)],
         queue |-> r.queue]

\* the query terms of a Rule, the one of its head first
RuleTerms(rule) == <<rule.qt>> \o rule.clauses

RECURSIVE try_terms_to_tls(_, _, _, _)
\* [tls: the TopLevels of the terms, queue: self.queue afterwards]
try_terms_to_tls(terms, tls, queue, blocks_cuts) ==
    IF terms = <<>> THEN [tls |-> tls, queue |-> queue]
    ELSE LET r == setup_rule(Head(terms).args, queue, blocks_cuts)
         IN  try_terms_to_tls(Tail(terms),
                 Append(tls, [kind |-> "Rule", name |-> r.rule.name,
                              arity |-> Len(r.rule.args),
                              clauses |-> <<r.rule>>]),
                 r.queue, blocks_cuts)

(***************************************************************************)
(* The driver: Machine of src/src/prolog/machine/mod.rs.                   *)
(***************************************************************************)
\* call_clause!: the call of a built-in or of call/N as a control instruction
call_clause(ct) == Line("Control", "CallClause", ct, 0)

\* Option<Line> of lookup_instr: <<>> is None, <<line>> is Some(line)
lookup_instr(p, code, cq, te) ==
    CASE p.k = "UserTermExpansion" ->
           IF p.p < Len(te) THEN <<te[p.p + 1]>> ELSE <<>>
      [] p.k = "TopLevel" ->
           IF cq # <<>> THEN <<cq[p.p + 1]>> ELSE <<>>
      [] p.k = "DirEntry" -> <<code[p.p + 1]>>
      [] OTHER -> <<call_clause(p.k)>>

execute_instr(m, code, cq, te, dir) ==
    LET found == lookup_instr(m.p, code, cq, te)
        instr == found[1]
    IN  IF found = <<>> THEN m
        ELSE CASE instr.kind = "Choice" -> execute_choice_instr(m, instr)
               [] instr.kind = "Cut" -> execute_cut_instr(m, instr)
               [] instr.kind = "Control" -> execute_ctrl_instr(m, instr, dir)
               [] instr.kind = "Fact" ->
                    [(IF m.fail THEN m ELSE execute_fact_instr(m, instr))
                        EXCEPT !.p = PtrAdd(@, 1)]
               [] OTHER ->
                    [(IF m.fail THEN m ELSE execute_query_instr(m, instr))
                        EXCEPT !.p = PtrAdd(@, 1)]

\* backtrack reading the alternative of the oldest choice point
backtrack_bottom(m) ==
    IF m.b > 0
    THEN LET bp == m.or_stack[1].bp
         IN  [m EXCEPT !.b0 = m.or_stack[1].b0,
                       !.p = bp,
                       !.fail = IF bp.k = "TopLevel" THEN bp.p = 0 ELSE FALSE]
    ELSE [m EXCEPT !.p = TopLevel(0, 0)]

\* backtrack clearing the fail flag when no choice point is left
backtrack_clears(m) ==
    IF m.b > 0
    THEN LET bp == m.or_stack[m.b].bp
         IN  [m EXCEPT !.b0 = m.or_stack[m.b].b0,
                       !.p = bp,
                       !.fail = IF bp.k = "TopLevel" THEN bp.p = 0 ELSE FALSE]
    ELSE [m EXCEPT !.p = TopLevel(0, 0), !.fail = FALSE]

\* backtrack leaving PC where the failure left it when no choice point
\* is left
backtrack_stays(m) ==
    IF m.b > 0
    THEN LET bp == m.or_stack[m.b].bp
         IN  [m EXCEPT !.b0 = m.or_stack[m.b].b0,
                       !.p = bp,
                       !.fail = IF bp.k = "TopLevel" THEN bp.p = 0 ELSE FALSE]
    ELSE m

backtrack(m) ==
    IF m.b > 0
    THEN LET b == m.b - 1
             bp == m.or_stack[b + 1].bp
         IN  [m EXCEPT !.b0 = m.or_stack[b + 1].b0,
                       !.p = bp,
                       !.fail = IF bp.k = "TopLevel" THEN bp.p = 0 ELSE FALSE]
    ELSE [m EXCEPT !.p = TopLevel(0, 0)]

\* failed() answering true whatever the flag
failed_always(m) == TRUE

failed(m) == m.fail

\* or_stack_is_empty taking a single choice point for none
or_stack_is_empty_below_two(m) == m.b <= 1

or_stack_is_empty(m) == m.b = 0

cached_query_size(cq) == Len(cq)

\* record_var_places taking the temporaries of the first chunk only
record_var_places_first_chunk(m, chunk_num, alloc_l, heap_l) ==
    LET hit(vd) == \/ vd.kind = "Perm" /\ vd.reg > 0
                   \/ vd.kind = "Temp" /\ vd.cn = 0 /\ chunk_num = 0 /\ vd.reg # 0
        new == {vd \in alloc_l : hit(vd)}
        addr(vd) == IF vd.kind = "Perm" THEN m.and_stack[m.e + 1].perms[vd.reg]
                                        ELSE m.a1
    IN  [v \in DOMAIN heap_l \cup {vd.var : vd \in new} |->
            IF \E vd \in new : vd.var = v
            THEN addr(CHOOSE vd \in new : vd.var = v)
            ELSE heap_l[v]]

\* alloc_locs: the set of [var, kind ("Perm" | "Temp"), cn, reg] of a query
record_var_places(m, chunk_num, alloc_l, heap_l) ==
    LET hit(vd) == \/ vd.kind = "Perm" /\ vd.reg > 0
                   \/ vd.kind = "Temp" /\ vd.cn = chunk_num /\ vd.reg # 0
        new == {vd \in alloc_l : hit(vd)}
        addr(vd) == IF vd.kind = "Perm" THEN m.and_stack[m.e + 1].perms[vd.reg]
                                        ELSE m.a1
    IN  [v \in DOMAIN heap_l \cup {vd.var : vd \in new} |->
            IF \E vd \in new : vd.var = v
            THEN addr(CHOOSE vd \in new : vd.var = v)
            ELSE heap_l[v]]

\* EvalSession
EvalSession(kind, e) == [kind |-> kind, e |-> e]

\* the printed form of the atom at the heap cell h
print_exception(m, h) == m.heap[h + 1].c

\* Machine::fail reporting plain failure whatever the ball
fail_plain(m) == [ms |-> m, result |-> EvalSession("QueryFailure", "")]

\* the machine and the EvalSession Machine::fail leaves
fail(m) ==
    IF m.ball # ""
    THEN LET m1 == [m EXCEPT !.heap = Append(@, Con(m.ball))]
         IN  [ms |-> m1,
              result |-> EvalSession("QueryFailureWithException",
                                     print_exception(m1, HeapTop(m)))]
    ELSE [ms |-> m, result |-> EvalSession("QueryFailure", "")]

\* the binding heap_view prints for X: its atom, or "_" for a variable
heap_view(m, heap_l) ==
    IF VarX \in DOMAIN heap_l
    THEN LET d == Deref(m, heap_l[VarX]) IN IF d.t = "Con" THEN d.c ELSE "_"
    ELSE "true"

(***************************************************************************)
(* The programs and queries the machine is run on.                         *)
(***************************************************************************)
Fact(name, harg) == Clause(name, harg, <<>>)

\* p(k1). ... p(kn).  for every sequence of 1..MaxClauses atoms
FactPrograms ==
    UNION {{[i \in 1..n |-> Fact("p", cs[i])] : cs \in [1..n -> Consts]} :
              n \in 1..MaxClauses}

\* a :- b, !, c.  a :- d.  with any of b, c, d defined (tests.rs, cuts)
CutProgram(defined) ==
    <<Clause("a", NoArg, <<CallG("b", NoArg), CutG, CallG("c", NoArg)>>),
      Clause("a", NoArg, <<CallG("d", NoArg)>>)>>
    \o (IF "b" \in defined THEN <<Fact("b", NoArg)>> ELSE <<>>)
    \o (IF "c" \in defined THEN <<Fact("c", NoArg)>> ELSE <<>>)
    \o (IF "d" \in defined THEN <<Fact("d", NoArg)>> ELSE <<>>)

\* s :- q.  s :- !.  s.  q.
NeckProgram ==
    <<Clause("s", NoArg, <<CallG("q", NoArg)>>),
      Clause("s", NoArg, <<CutG>>),
      Fact("s", NoArg),
      Fact("q", NoArg)>>

CutPrograms == {CutProgram(d) : d \in SUBSET {"b", "c", "d"}} \cup {NeckProgram}

\* f(c1). f(_) :- throw(c2). handle(c2).  (tests.rs, exceptions) with
\* thr(X) :- throw(X).  inner(X) :- catch(thr(c2), X, true).  true.
\* bt(c1) :- throw(c3).  bt(c2).
ThrowProgram ==
    <<Fact("f", "c1"),
      Clause("f", VarX, <<ThrowG("c2")>>),
      Fact("handle", "c2"),
      Clause("thr", VarX, <<ThrowG(VarX)>>),
      Clause("inner", VarX, <<CatchG("thr", "c2", VarX, "true", NoArg)>>),
      Fact("true", NoArg),
      Clause("bt", "c1", <<ThrowG("c3")>>),
      Fact("bt", "c2")>>

\* f(c1). f(X) :- g(X). g(c2). g(X) :- throw(c2). handle(c2). handle(c3).
RethrowProgram ==
    <<Fact("f", "c1"),
      Clause("f", VarX, <<CallG("g", VarX)>>),
      Fact("g", "c2"),
      Clause("g", VarX, <<ThrowG("c2")>>),
      Fact("handle", "c2"),
      Fact("handle", "c3"),
      Fact("true", NoArg)>>

\* t(c1) :- u(_).  t(c1).  u(c2) :- w.  with w defined or not
HeapProgram(defined) ==
    <<Clause("t", "c1", <<CallG("u", VarX)>>),
      Fact("t", "c1"),
      Clause("u", "c2", <<CallG("w", NoArg)>>)>>
    \o (IF "w" \in defined THEN <<Fact("w", NoArg)>> ELSE <<>>)

HeapPrograms == {HeapProgram(d) : d \in SUBSET {"w"}}

Programs ==
    FactPrograms \cup CutPrograms \cup HeapPrograms
    \cup {ThrowProgram, RethrowProgram}

Args == Consts \cup {VarX}

\* the queries put to a program
Queries(prog) ==
    CASE prog[1].name = "p" ->
           {<<CallG("p", a)>> : a \in Args} \cup {<<CallG("p", VarX), CutG>>}
           \cup {<<CallG("p", a), CallG("p", VarT)>> : a \in {"c1", VarX}}
      [] prog[1].name = "a" -> {<<CallG("a", NoArg)>>, <<CallG("a", NoArg), CutG>>}
      [] prog[1].name = "s" -> {<<CallG("s", NoArg)>>}
      [] prog[1].name = "t" -> {<<CallG("t", a)>> : a \in Args}
      [] OTHER ->
           {<<CatchG(g[1], g[2], k, r[1], r[2])>> :
               g \in ({"f"} \X Args)
                     \cup ({"thr", "inner"} \X Consts)
                     \cup {<<"inner", VarX>>, <<"bt", VarX>>},
               k \in {"c2", "c3", VarX},
               r \in {<<"true", NoArg>>, <<"handle", "c2">>, <<"handle", VarX>>}}
           \cup {<<CallG("f", a)>> : a \in Args}

\* X occurs in the goals
UsesX(goals) ==
    \E i \in 1..Len(goals) :
        VarX \in {goals[i].arg, goals[i].catcher, goals[i].rarg}

\* the AllocVarDict of a query: X is the permanent cell Y1 if the query has
\* a frame, else the temporary register 1 of chunk 0; T is the temporary
\* register 1 of the chunk of its goal, one chunk to each call before it
AllocOf(goals) ==
    (IF UsesX(goals)
     THEN {[var |-> VarX, kind |-> IF NeedsEnv(goals) THEN "Perm" ELSE "Temp",
            cn |-> 0, reg |-> 1]}
     ELSE {})
    \cup {[var |-> VarT, kind |-> "Temp", cn |-> i - 1, reg |-> 1] :
             i \in {j \in 1..Len(goals) : goals[j].arg = VarT}}

(***************************************************************************)
(* The state.                                                              *)
(*   program, query: the source loaded and the query being run             *)
(*   code, code_dir, term_expanders, cached_query, ms: the Machine         *)
(*   pc: where the driver stands; session: which entry point is running    *)
(*   alloc_locs, heap_locs, result: the caller's dictionaries and the      *)
(*     EvalSession it was handed                                           *)
(*   answers: the bindings printed for the solutions of the query so far   *)
(*   trace: what the stepper did last (history)                            *)
(*   tl_pc, tl_term, tl_rule, tl_queue, tl_results: the RelationWorker at  *)
(*     work on one clause: where it stands, the clause read, its Rule,     *)
(*     self.queue and the predicates parse_queue has made of it            *)
(***************************************************************************)
VARIABLES program, query, code, code_dir, term_expanders, cached_query, ms,
          pc, session, alloc_locs, heap_locs, result, answers, trace, tl_pc,
          tl_term, tl_rule, tl_queue, tl_results, scc_pc, scc_setup,
          scc_goal, scc_b, scc_cleaners, scc_ran, scc_end, fa_pc, fa_proofs,
          fa_i, fa_x, fa_bag, fa_l, fa_res, fa_out, dy_pc, dy_vecs, dy_cur,
          dy_it, dy_pos, dy_seen, dy_at_call, dy_n, cd_code, cd_ops, cd_mods,
          cd_call, cd_before, ar_pc, ar_op, ar_xt, ar_x, ar_y, ar_val,
          ar_ball, ar_lhs, ar_catch, ar_e, od_pc, od_terms, od_res, mb_pc,
          sc, mb, mb_op, mb_last, wam, as_stack, as_op, bc_cells, bc_dir,
          bc_code, bc_handles, bc_n, bc_call, ci_cells, ci_local, ci_static,
          ci_in_module, ci_first, ci_n, ci_call, mc_tls, mc_call, bw_all,
          bw_input, bw_results, bw_ret, rc_ms, rc_lco, rc_call

vars == <<program, query, code, code_dir, term_expanders, cached_query, ms,
          pc, session, alloc_locs, heap_locs, result, answers, trace, tl_pc,
          tl_term, tl_rule, tl_queue, tl_results, scc_pc, scc_setup,
          scc_goal, scc_b, scc_cleaners, scc_ran, scc_end, fa_pc, fa_proofs,
          fa_i, fa_x, fa_bag, fa_l, fa_res, fa_out, dy_pc, dy_vecs, dy_cur,
          dy_it, dy_pos, dy_seen, dy_at_call, dy_n, cd_code, cd_ops, cd_mods,
          cd_call, cd_before, ar_pc, ar_op, ar_xt, ar_x, ar_y, ar_val,
          ar_ball, ar_lhs, ar_catch, ar_e, od_pc, od_terms, od_res, mb_pc,
          sc, mb, mb_op, mb_last, wam, as_stack, as_op, bc_cells, bc_dir,
          bc_code, bc_handles, bc_n, bc_call, ci_cells, ci_local, ci_static,
          ci_in_module, ci_first, ci_n, ci_call, mc_tls, mc_call, bw_all,
          bw_input, bw_results, bw_ret, rc_ms, rc_lco, rc_call>>

loaded == <<program, code, code_dir, term_expanders>>

toplevel == <<tl_pc, tl_term, tl_rule, tl_queue, tl_results>>

machine == <<program, query, code, code_dir, term_expanders, cached_query,
             ms, pc, session, alloc_locs, heap_locs, result, answers, trace>>

\* setup_call_cleanup(S, G, C) under way
cleanup == <<scc_pc, scc_setup, scc_goal, scc_b, scc_cleaners, scc_ran,
              scc_end>>

\* findall(X, Goal, L) under way
findall == <<fa_pc, fa_proofs, fa_i, fa_x, fa_bag, fa_l, fa_res, fa_out>>

\* a dynamic predicate and a query iterating over it
dynamic == <<dy_pc, dy_vecs, dy_cur, dy_it, dy_pos, dy_seen, dy_at_call, dy_n>>

\* the code directory, the operators and the modules loaded
directory == <<cd_code, cd_ops, cd_mods, cd_call, cd_before>>

\* X is Left op Right under way
arith == <<ar_pc, ar_op, ar_xt, ar_x, ar_y, ar_val, ar_ball, ar_lhs,
            ar_catch, ar_e>>

\* an op/3 declaration being read
opdecl == <<od_pc, od_terms, od_res>>

\* a MachineBuilder in the making and the machine built
builder == <<mb_pc, sc, mb, mb_op, mb_last, wam>>

\* an AndStack on its own
andstack == <<as_stack, as_op>>

\* the master code directory as index cells, the code vector and the handles given out
indexcells == <<bc_cells, bc_dir, bc_code, bc_handles, bc_n, bc_call>>

\* CompositeIndices: index cells, the local and the static code directory
composite == <<ci_cells, ci_local, ci_static, ci_in_module, ci_first, ci_n,
                ci_call>>

\* merge_clauses on a queue of TopLevel entries
merge == <<mc_tls, mc_call>>

\* TopLevelBatchWorker: the terms of the stream, those not yet read, the results and what consume returned
batchworker == <<bw_all, bw_input, bw_results, bw_ret>>

\* return_from_clause!: the machine state, the lco of the CallClause under way and the call made
clausereturn == <<rc_ms, rc_lco, rc_call>>

\* the state outside the machine and the top level
library == <<cleanup, findall, dynamic, directory, arith, opdecl, builder,
              andstack, indexcells, composite, merge, batchworker,
              clausereturn>>

\* setup_call_cleanup(S, G, C) under way, not in use
Idle_cleanup ==
    /\ scc_pc = "idle"
    /\ scc_setup = "none"
    /\ scc_goal = <<>>
    /\ scc_b = 0
    /\ scc_cleaners = <<>>
    /\ scc_ran = 0
    /\ scc_end = "none"

\* findall(X, Goal, L) under way, not in use
Idle_findall ==
    /\ fa_pc = "idle"
    /\ fa_proofs = <<>>
    /\ fa_i = 0
    /\ fa_x = "_"
    /\ fa_bag = <<>>
    /\ fa_l = [k |-> "var", elems |-> <<>>]
    /\ fa_res = [k |-> "var", elems |-> <<>>]
    /\ fa_out = "none"

\* a dynamic predicate and a query iterating over it, not in use
Idle_dynamic ==
    /\ dy_pc = "idle"
    /\ dy_vecs = <<>>
    /\ dy_cur = 0
    /\ dy_it = 0
    /\ dy_pos = 0
    /\ dy_seen = <<>>
    /\ dy_at_call = <<>>
    /\ dy_n = 0

\* the code directory, the operators and the modules loaded, not in use
Idle_directory ==
    /\ cd_code = <<>>
    /\ cd_ops = <<>>
    /\ cd_mods = <<>>
    /\ cd_call = <<>>
    /\ cd_before = <<>>

\* X is Left op Right under way, not in use
Idle_arith ==
    /\ ar_pc = "idle"
    /\ ar_op = ""
    /\ ar_xt = ""
    /\ ar_x = 0
    /\ ar_y = 0
    /\ ar_val = [t |-> "none", n |-> 0, d |-> 1]
    /\ ar_ball = ""
    /\ ar_lhs = [t |-> "none", n |-> 0, d |-> 1]
    /\ ar_catch = FALSE
    /\ ar_e = ""

\* an op/3 declaration being read, not in use
Idle_opdecl ==
    /\ od_pc = "idle"
    /\ od_terms = <<>>
    /\ od_res = <<>>

\* a MachineBuilder in the making and the machine built, not in use
Idle_builder ==
    /\ mb_pc = "idle"
    /\ sc = <<>>
    /\ mb = <<>>
    /\ mb_op = <<>>
    /\ mb_last = <<>>
    /\ wam = <<>>

\* an AndStack on its own, not in use
Idle_andstack ==
    /\ as_stack = <<>>
    /\ as_op = <<>>

\* the master code directory as index cells, the code vector and the handles given out, not in use
Idle_indexcells ==
    /\ bc_cells = <<>>
    /\ bc_dir = <<>>
    /\ bc_code = <<>>
    /\ bc_handles = {}
    /\ bc_n = 0
    /\ bc_call = <<>>

\* CompositeIndices: index cells, the local and the static code directory, not in use
Idle_composite ==
    /\ ci_cells = <<>>
    /\ ci_local = <<>>
    /\ ci_static = <<>>
    /\ ci_in_module = FALSE
    /\ ci_first = <<>>
    /\ ci_n = 0
    /\ ci_call = <<>>

\* merge_clauses on a queue of TopLevel entries, not in use
Idle_merge ==
    /\ mc_tls = <<>>
    /\ mc_call = <<>>

\* TopLevelBatchWorker: the terms of the stream, those not yet read, the results and what consume returned, not in use
Idle_batchworker ==
    /\ bw_all = <<>>
    /\ bw_input = <<>>
    /\ bw_results = <<>>
    /\ bw_ret = ""

\* return_from_clause!: the machine state, the lco of the CallClause under way and the call made, not in use
Idle_clausereturn ==
    /\ rc_ms = <<>>
    /\ rc_lco = FALSE
    /\ rc_call = <<>>

Idle_library ==
    /\ Idle_cleanup
    /\ Idle_findall
    /\ Idle_dynamic
    /\ Idle_directory
    /\ Idle_arith
    /\ Idle_opdecl
    /\ Idle_builder
    /\ Idle_andstack
    /\ Idle_indexcells
    /\ Idle_composite
    /\ Idle_merge
    /\ Idle_batchworker
    /\ Idle_clausereturn

\* all but cleanup
besides_cleanup == <<machine, toplevel, findall, dynamic, directory, arith,
                       opdecl, builder, andstack, indexcells, composite,
                       merge, batchworker, clausereturn>>

\* all but findall
besides_findall == <<machine, toplevel, cleanup, dynamic, directory, arith,
                       opdecl, builder, andstack, indexcells, composite,
                       merge, batchworker, clausereturn>>

\* all but dynamic
besides_dynamic == <<machine, toplevel, cleanup, findall, directory, arith,
                       opdecl, builder, andstack, indexcells, composite,
                       merge, batchworker, clausereturn>>

\* all but directory
besides_directory == <<machine, toplevel, cleanup, findall, dynamic, arith,
                         opdecl, builder, andstack, indexcells, composite,
                         merge, batchworker, clausereturn>>

\* all but arith
besides_arith == <<machine, toplevel, cleanup, findall, dynamic, directory,
                     opdecl, builder, andstack, indexcells, composite, merge,
                     batchworker, clausereturn>>

\* all but opdecl
besides_opdecl == <<machine, toplevel, cleanup, findall, dynamic, directory,
                      arith, builder, andstack, indexcells, composite, merge,
                      batchworker, clausereturn>>

\* all but builder
besides_builder == <<machine, toplevel, cleanup, findall, dynamic, directory,
                       arith, opdecl, andstack, indexcells, composite, merge,
                       batchworker, clausereturn>>

\* all but andstack
besides_andstack == <<machine, toplevel, cleanup, findall, dynamic,
                        directory, arith, opdecl, builder, indexcells,
                        composite, merge, batchworker, clausereturn>>

\* all but indexcells
besides_indexcells == <<machine, toplevel, cleanup, findall, dynamic,
                          directory, arith, opdecl, builder, andstack,
                          composite, merge, batchworker, clausereturn>>

\* all but composite
besides_composite == <<machine, toplevel, cleanup, findall, dynamic,
                         directory, arith, opdecl, builder, andstack,
                         indexcells, merge, batchworker, clausereturn>>

\* all but merge
besides_merge == <<machine, toplevel, cleanup, findall, dynamic, directory,
                     arith, opdecl, builder, andstack, indexcells, composite,
                     batchworker, clausereturn>>

\* all but batchworker
besides_batchworker == <<machine, toplevel, cleanup, findall, dynamic,
                           directory, arith, opdecl, builder, andstack,
                           indexcells, composite, merge, clausereturn>>

\* all but clausereturn
besides_clausereturn == <<machine, toplevel, cleanup, findall, dynamic,
                            directory, arith, opdecl, builder, andstack,
                            indexcells, composite, merge, batchworker>>

NoTrace ==
    [last |-> "none", failed |-> FALSE, bts |-> 0, pre |-> MachineState_new,
     resumed |-> "no", start |-> MachineState_new, cont |-> MachineState_new,
     late |-> {}, cuts |-> {}]

\* the machine with a program loaded and no query put to it yet
InitMachine(programs) ==
    /\ program \in programs
    /\ code = LoadProgram(program).code
    /\ code_dir = LoadProgram(program).dir
    /\ term_expanders = <<>>
    /\ cached_query = <<>>
    /\ ms = MachineState_new
    /\ pc = "idle"
    /\ session = "none"
    /\ query = <<>>
    /\ alloc_locs = {}
    /\ heap_locs = EmptyMap
    /\ result = EvalSession("None", "")
    /\ answers = <<>>
    /\ trace = NoTrace

NoRule == [name |-> "", args |-> <<>>, qt |-> QueryTerm("", "", 0), clauses |-> <<>>]

\* a RelationWorker that has read the clause  a :- body
InitTopLevel(bodies) ==
    /\ tl_term \in {Cl(":-", <<Atom("a"), b>>) : b \in bodies}
    /\ tl_pc = "term"
    /\ tl_rule = NoRule
    /\ tl_queue = <<>>
    /\ tl_results = <<>>

Init ==
    /\ InitMachine(Programs)
    /\ InitTopLevel({Atom("true")})
    /\ Idle_library

\* the machine and the top level at rest, and all but cleanup not in use
Rest_cleanup ==
    /\ InitMachine({NeckProgram})
    /\ InitTopLevel({Atom("true")})
    /\ Idle_findall
    /\ Idle_dynamic
    /\ Idle_directory
    /\ Idle_arith
    /\ Idle_opdecl
    /\ Idle_builder
    /\ Idle_andstack
    /\ Idle_indexcells
    /\ Idle_composite
    /\ Idle_merge
    /\ Idle_batchworker
    /\ Idle_clausereturn

\* the machine and the top level at rest, and all but findall not in use
Rest_findall ==
    /\ InitMachine({NeckProgram})
    /\ InitTopLevel({Atom("true")})
    /\ Idle_cleanup
    /\ Idle_dynamic
    /\ Idle_directory
    /\ Idle_arith
    /\ Idle_opdecl
    /\ Idle_builder
    /\ Idle_andstack
    /\ Idle_indexcells
    /\ Idle_composite
    /\ Idle_merge
    /\ Idle_batchworker
    /\ Idle_clausereturn

\* the machine and the top level at rest, and all but dynamic not in use
Rest_dynamic ==
    /\ InitMachine({NeckProgram})
    /\ InitTopLevel({Atom("true")})
    /\ Idle_cleanup
    /\ Idle_findall
    /\ Idle_directory
    /\ Idle_arith
    /\ Idle_opdecl
    /\ Idle_builder
    /\ Idle_andstack
    /\ Idle_indexcells
    /\ Idle_composite
    /\ Idle_merge
    /\ Idle_batchworker
    /\ Idle_clausereturn

\* the machine and the top level at rest, and all but directory not in use
Rest_directory ==
    /\ InitMachine({NeckProgram})
    /\ InitTopLevel({Atom("true")})
    /\ Idle_cleanup
    /\ Idle_findall
    /\ Idle_dynamic
    /\ Idle_arith
    /\ Idle_opdecl
    /\ Idle_builder
    /\ Idle_andstack
    /\ Idle_indexcells
    /\ Idle_composite
    /\ Idle_merge
    /\ Idle_batchworker
    /\ Idle_clausereturn

\* the machine and the top level at rest, and all but arith not in use
Rest_arith ==
    /\ InitMachine({NeckProgram})
    /\ InitTopLevel({Atom("true")})
    /\ Idle_cleanup
    /\ Idle_findall
    /\ Idle_dynamic
    /\ Idle_directory
    /\ Idle_opdecl
    /\ Idle_builder
    /\ Idle_andstack
    /\ Idle_indexcells
    /\ Idle_composite
    /\ Idle_merge
    /\ Idle_batchworker
    /\ Idle_clausereturn

\* the machine and the top level at rest, and all but opdecl not in use
Rest_opdecl ==
    /\ InitMachine({NeckProgram})
    /\ InitTopLevel({Atom("true")})
    /\ Idle_cleanup
    /\ Idle_findall
    /\ Idle_dynamic
    /\ Idle_directory
    /\ Idle_arith
    /\ Idle_builder
    /\ Idle_andstack
    /\ Idle_indexcells
    /\ Idle_composite
    /\ Idle_merge
    /\ Idle_batchworker
    /\ Idle_clausereturn

\* the machine and the top level at rest, and all but builder not in use
Rest_builder ==
    /\ InitMachine({NeckProgram})
    /\ InitTopLevel({Atom("true")})
    /\ Idle_cleanup
    /\ Idle_findall
    /\ Idle_dynamic
    /\ Idle_directory
    /\ Idle_arith
    /\ Idle_opdecl
    /\ Idle_andstack
    /\ Idle_indexcells
    /\ Idle_composite
    /\ Idle_merge
    /\ Idle_batchworker
    /\ Idle_clausereturn

\* the machine and the top level at rest, and all but andstack not in use
Rest_andstack ==
    /\ InitMachine({NeckProgram})
    /\ InitTopLevel({Atom("true")})
    /\ Idle_cleanup
    /\ Idle_findall
    /\ Idle_dynamic
    /\ Idle_directory
    /\ Idle_arith
    /\ Idle_opdecl
    /\ Idle_builder
    /\ Idle_indexcells
    /\ Idle_composite
    /\ Idle_merge
    /\ Idle_batchworker
    /\ Idle_clausereturn

\* the machine and the top level at rest, and all but indexcells not in use
Rest_indexcells ==
    /\ InitMachine({NeckProgram})
    /\ InitTopLevel({Atom("true")})
    /\ Idle_cleanup
    /\ Idle_findall
    /\ Idle_dynamic
    /\ Idle_directory
    /\ Idle_arith
    /\ Idle_opdecl
    /\ Idle_builder
    /\ Idle_andstack
    /\ Idle_composite
    /\ Idle_merge
    /\ Idle_batchworker
    /\ Idle_clausereturn

\* the machine and the top level at rest, and all but composite not in use
Rest_composite ==
    /\ InitMachine({NeckProgram})
    /\ InitTopLevel({Atom("true")})
    /\ Idle_cleanup
    /\ Idle_findall
    /\ Idle_dynamic
    /\ Idle_directory
    /\ Idle_arith
    /\ Idle_opdecl
    /\ Idle_builder
    /\ Idle_andstack
    /\ Idle_indexcells
    /\ Idle_merge
    /\ Idle_batchworker
    /\ Idle_clausereturn

\* the machine and the top level at rest, and all but merge not in use
Rest_merge ==
    /\ InitMachine({NeckProgram})
    /\ InitTopLevel({Atom("true")})
    /\ Idle_cleanup
    /\ Idle_findall
    /\ Idle_dynamic
    /\ Idle_directory
    /\ Idle_arith
    /\ Idle_opdecl
    /\ Idle_builder
    /\ Idle_andstack
    /\ Idle_indexcells
    /\ Idle_composite
    /\ Idle_batchworker
    /\ Idle_clausereturn

\* the machine and the top level at rest, and all but batchworker not in use
Rest_batchworker ==
    /\ InitMachine({NeckProgram})
    /\ InitTopLevel({Atom("true")})
    /\ Idle_cleanup
    /\ Idle_findall
    /\ Idle_dynamic
    /\ Idle_directory
    /\ Idle_arith
    /\ Idle_opdecl
    /\ Idle_builder
    /\ Idle_andstack
    /\ Idle_indexcells
    /\ Idle_composite
    /\ Idle_merge
    /\ Idle_clausereturn

\* the machine and the top level at rest, and all but clausereturn not in use
Rest_clausereturn ==
    /\ InitMachine({NeckProgram})
    /\ InitTopLevel({Atom("true")})
    /\ Idle_cleanup
    /\ Idle_findall
    /\ Idle_dynamic
    /\ Idle_directory
    /\ Idle_arith
    /\ Idle_opdecl
    /\ Idle_builder
    /\ Idle_andstack
    /\ Idle_indexcells
    /\ Idle_composite
    /\ Idle_merge
    /\ Idle_batchworker

\* Machine::reset, as every caller does before it submits a query
Reset ==
    /\ pc = "idle"
    /\ result.kind # "None"
    /\ ms' = MachineState_new
    /\ session' = "none"
    /\ query' = <<>>
    /\ alloc_locs' = {}
    /\ heap_locs' = EmptyMap
    /\ result' = EvalSession("None", "")
    /\ answers' = <<>>
    /\ trace' = NoTrace
    /\ UNCHANGED <<library, toplevel, loaded, cached_query, pc>>

\* submit_query up to its call of run_query
SubmitQuery ==
    /\ pc = "idle"
    /\ result.kind = "None"
    /\ \E q \in Queries(program) :
          /\ query' = q
          /\ cached_query' = compile_query(q)
          /\ alloc_locs' = AllocOf(q)
    /\ heap_locs' = EmptyMap
    /\ session' = "submit"
    /\ pc' = "rq_while"
    /\ answers' = <<>>
    /\ trace' = [NoTrace EXCEPT !.start = ms]
    /\ UNCHANGED <<library, toplevel, loaded, ms, result>>

\* continue_query running the query from any alternative of the top choice
\* point, the start of the query included
ContinueQuery_from_query_start ==
    /\ pc = "idle"
    /\ result.kind # "None"
    /\ IF ~or_stack_is_empty(ms)
       THEN /\ ms' = [ms EXCEPT !.p = ms.or_stack[(ms.b - 1) + 1].bp]
            /\ pc' = "rq_while"
            /\ UNCHANGED result
       ELSE /\ result' = EvalSession("QueryFailure", "")
            /\ UNCHANGED <<ms, pc>>
    /\ session' = "continue"
    /\ trace' = [trace EXCEPT !.last = "continue", !.failed = FALSE, !.bts = 0,
                              !.pre = ms, !.resumed = "no", !.cont = ms]
    /\ UNCHANGED <<library, toplevel, loaded, query, cached_query, alloc_locs, heap_locs, answers>>

\* continue_query up to its call of run_query, or to its early returns
ContinueQuery ==
    /\ pc = "idle"
    /\ result.kind # "None"
    /\ IF ~or_stack_is_empty(ms)
       THEN LET bp == ms.or_stack[(ms.b - 1) + 1].bp
            IN  /\ ms' = [ms EXCEPT !.p = bp]
                /\ IF bp.k = "TopLevel" /\ bp.p = 0
                   THEN /\ result' = EvalSession("QueryFailure", "")
                        /\ UNCHANGED pc
                   ELSE /\ pc' = "rq_while"
                        /\ UNCHANGED result
       ELSE /\ result' = EvalSession("QueryFailure", "")
            /\ UNCHANGED <<ms, pc>>
    /\ session' = "continue"
    /\ trace' = [trace EXCEPT !.last = "continue", !.failed = FALSE, !.bts = 0,
                              !.pre = ms, !.resumed = "no", !.cont = ms]
    /\ UNCHANGED <<library, toplevel, loaded, query, cached_query, alloc_locs, heap_locs, answers>>

\* run_query: the loop test and the chunk bookkeeping before the stepper
RunQueryWhile ==
    /\ pc = "rq_while"
    /\ IF PtrLess(ms.p, TopLevel(0, cached_query_size(cached_query)))
       THEN /\ pc' = "qs_exec"
            /\ IF ms.p.k = "TopLevel"
               THEN IF is_jump_instr(cached_query[ms.p.p + 1])
                    THEN /\ heap_locs' = record_var_places(ms, ms.p.cn, alloc_locs,
                                                           heap_locs)
                         /\ ms' = [ms EXCEPT !.p = TopLevel(ms.p.cn + 1, ms.p.p)]
                    ELSE UNCHANGED <<ms, heap_locs>>
               ELSE UNCHANGED <<ms, heap_locs>>
       ELSE /\ pc' = "ret"
            /\ UNCHANGED <<ms, heap_locs>>
    /\ UNCHANGED <<library, toplevel, loaded, query, cached_query, session, alloc_locs, result,
                   answers, trace>>

\* query_stepper: self.execute_instr()
ExecuteInstr ==
    /\ pc = "qs_exec"
    /\ ms' = execute_instr(ms, code, cached_query, term_expanders, code_dir)
    /\ pc' = "qs_fail"
    /\ LET found == lookup_instr(ms.p, code, cached_query, term_expanders)
           l == found[1]
       IN  trace' = [trace EXCEPT
              !.last = "instr", !.failed = ms'.fail, !.bts = 0, !.pre = ms,
              !.resumed = IF trace.last = "backtrack" /\ trace.pre.b > 0
                          THEN "backtrack"
                          ELSE IF trace.last = "continue" THEN "continue"
                          ELSE "no",
              !.cuts = IF found # <<>> /\ l.kind = "Cut" /\ l.op # "GetLevel"
                       THEN @ \cup {<<l.pr, l.cl>>} ELSE @,
              !.late = IF found # <<>>
                          /\ \E c \in trace.cuts : c[1] = l.pr /\ c[2] < l.cl
                       THEN @ \cup {<<l.pr, l.cl>>} ELSE @]
    /\ UNCHANGED <<library, toplevel, loaded, query, cached_query, session, alloc_locs, heap_locs,
                   result, answers>>

\* query_stepper: if self.failed() { self.backtrack() }
Backtrack ==
    /\ pc = "qs_fail"
    /\ failed(ms)
    /\ ms' = backtrack(ms)
    /\ pc' = "qs_match"
    /\ trace' = [trace EXCEPT !.last = "backtrack", !.bts = @ + 1, !.pre = ms]
    /\ UNCHANGED <<library, toplevel, loaded, query, cached_query, session, alloc_locs, heap_locs,
                   result, answers>>

NoBacktrack ==
    /\ pc = "qs_fail"
    /\ ~failed(ms)
    /\ pc' = "qs_match"
    /\ UNCHANGED <<library, toplevel, loaded, query, cached_query, ms, session, alloc_locs,
                   heap_locs, result, answers, trace>>

\* the match ending the loop at an out-of-range term-expansion pointer
StepperMatch_expansion_breaks ==
    /\ pc = "qs_match"
    /\ CASE ms.p.k = "DirEntry" /\ ms.p.p < Len(code) ->
              pc' = "qs_exec" /\ UNCHANGED ms
         [] ms.p.k = "UserTermExpansion" /\ ms.p.p < Len(term_expanders) ->
              pc' = "qs_exec" /\ UNCHANGED ms
         [] IsLocal(ms.p) ->
              pc' = "rq_post" /\ UNCHANGED ms
         [] OTHER ->
              pc' = "qs_exec" /\ UNCHANGED ms
    /\ UNCHANGED <<library, toplevel, loaded, query, cached_query, session, alloc_locs, heap_locs,
                   result, answers, trace>>

\* query_stepper: the match on self.ms.p that ends or repeats the loop
StepperMatch ==
    /\ pc = "qs_match"
    /\ CASE ms.p.k = "DirEntry" /\ ms.p.p < Len(code) ->
              pc' = "qs_exec" /\ UNCHANGED ms
         [] ms.p.k = "UserTermExpansion" /\ ms.p.p < Len(term_expanders) ->
              pc' = "qs_exec" /\ UNCHANGED ms
         [] ms.p.k = "UserTermExpansion" ->
              pc' = "qs_exec" /\ ms' = [ms EXCEPT !.fail = TRUE]
         [] IsLocal(ms.p) ->
              pc' = "rq_post" /\ UNCHANGED ms
         [] OTHER ->
              pc' = "qs_exec" /\ UNCHANGED ms
    /\ UNCHANGED <<library, toplevel, loaded, query, cached_query, session, alloc_locs, heap_locs,
                   result, answers, trace>>

\* run_query: the match on self.ms.p after the stepper
RunQueryPost ==
    /\ pc = "rq_post"
    /\ IF ms.p.k = "TopLevel" /\ ms.p.p > 0
       THEN /\ pc' = "rq_while"
            /\ UNCHANGED heap_locs
       ELSE /\ pc' = "ret"
            /\ heap_locs' = IF DOMAIN heap_locs = {}
                            THEN record_var_places(ms, 0, alloc_locs, heap_locs)
                            ELSE heap_locs
    /\ UNCHANGED <<library, toplevel, loaded, query, cached_query, ms, session, alloc_locs, result,
                   answers, trace>>

\* submit_query / continue_query after run_query has returned
Return ==
    /\ pc = "ret"
    /\ pc' = "idle"
    /\ IF failed(ms)
       THEN /\ ms' = fail(ms).ms
            /\ result' = fail(ms).result
            /\ UNCHANGED answers
       ELSE /\ result' = EvalSession(IF session = "submit"
                                     THEN "InitialQuerySuccess"
                                     ELSE "SubsequentQuerySuccess", "")
            /\ answers' = Append(answers, heap_view(ms, heap_locs))
            /\ UNCHANGED ms
    /\ UNCHANGED <<library, toplevel, loaded, query, cached_query, session, alloc_locs, heap_locs,
                   trace>>

Next ==
    \/ Reset
    \/ SubmitQuery
    \/ ContinueQuery
    \/ RunQueryWhile
    \/ ExecuteInstr
    \/ Backtrack
    \/ NoBacktrack
    \/ StepperMatch
    \/ RunQueryPost
    \/ Return

Spec == Init /\ [][Next]_vars

TypeOK ==
    /\ pc \in {"idle", "rq_while", "qs_exec", "qs_fail", "qs_match", "rq_post", "ret"}
    /\ ms.b = Len(ms.or_stack)
    /\ ms.tr = Len(ms.trail)

(***************************************************************************)
(* Properties.                                                             *)
(***************************************************************************)
\* the choice point that was on top when the last step began
TopBefore == trace.pre.or_stack[trace.pre.b]

\* backtrack has just run on a non-empty or-stack
AfterBacktrack ==
    pc = "qs_match" /\ trace.last = "backtrack" /\ trace.pre.b > 0

\* the instruction at the alternative of a choice point has just run
AfterResume ==
    pc = "qs_fail" /\ trace.last = "instr" /\ trace.resumed = "backtrack"

\* E, CP, A1, the heap top and the trail top are those saved in fr
RestoredFrom(m, fr) ==
    /\ m.e = fr.e
    /\ m.cp = fr.cp
    /\ (fr.args # <<>> => m.a1 = fr.args[1])
    /\ HeapTop(m) = fr.h
    /\ m.tr = fr.tr
    /\ Len(m.trail) = fr.tr

\* every cell trailed above fr.tr in `before` is unbound in m
Untrailed(m, before, fr) ==
    \A i \in (fr.tr + 1)..before.tr :
        LET a == before.trail[i]
        IN  IF a.t = "HeapCell"
            THEN a.h < HeapTop(m) => m.heap[a.h + 1] = a
            ELSE m.and_stack[a.h + 1].perms[a.s] = a

\* C1 as stated: once backtrack has returned on a non-empty or-stack, and
\* before the next instruction runs, E, CP, A1, the heap and the trail are
\* those of the top choice point B and PC is B.BP.
C1_RestoredByBacktrack ==
    AfterBacktrack =>
        /\ RestoredFrom(ms, TopBefore)
        /\ ms.p = TopBefore.bp

\* C1, amended: before the next instruction runs backtrack has set PC to
\* B.BP and B0 to B's saved B0 and changed nothing else; E, CP, A1, the
\* heap and the trail are those saved in B once the instruction at B.BP
\* has run.
C1_BacktrackThenResume ==
    /\ AfterBacktrack =>
          /\ ms.p = TopBefore.bp
          /\ ms.b0 = TopBefore.b0
          /\ ms = [trace.pre EXCEPT !.p = ms.p, !.b0 = ms.b0, !.fail = ms.fail]
    /\ AfterResume =>
          /\ trace.pre.p = TopBefore.bp
          /\ RestoredFrom(ms, TopBefore)
          /\ Untrailed(ms, trace.pre, TopBefore)

\* a failure with the trail and the heap above what the top choice point
\* saved and A1 overwritten, and the instruction at BP run after it
C1_Witness ==
    /\ AfterResume
    /\ trace.pre.tr > TopBefore.tr
    /\ HeapTop(trace.pre) > TopBefore.h
    /\ TopBefore.args # <<>>
    /\ trace.pre.a1 # TopBefore.args[1]

\* the query has reported failure: no solution is left
Exhausted ==
    pc = "idle" /\ result.kind \in {"QueryFailure", "QueryFailureWithException"}

\* C2 as stated: once the query is exhausted, H, TR, E and B are the
\* values they had when the query was submitted.
C2_BackToQueryStart ==
    Exhausted =>
        /\ HeapTop(ms) = HeapTop(trace.start)
        /\ ms.tr = trace.start.tr
        /\ ms.e = trace.start.e
        /\ ms.b = trace.start.b

\* C2, amended: when backtracking pops the oldest choice point of the
\* query, H, TR and E are the values saved in that choice point and B is
\* the value it had when the query was submitted; an exhausted query has
\* B at that value, and the last failure, with no choice point left,
\* changes PC only.
C2_BackToOldestChoicePoint ==
    /\ (AfterResume /\ trace.pre.b = 1 /\ ms.b = 0) =>
          /\ HeapTop(ms) = TopBefore.h
          /\ ms.tr = TopBefore.tr
          /\ ms.e = TopBefore.e
          /\ ms.b = trace.start.b
    /\ Exhausted => ms.b = trace.start.b
    /\ (pc = "qs_match" /\ trace.last = "backtrack" /\ trace.pre.b = 0) =>
          ms = [trace.pre EXCEPT !.p = TopLevel(0, 0)]

\* a query exhausted after it gave a solution, by a failure with no
\* choice point left, its heap above the heap top of the query's start
C2_Witness ==
    /\ Exhausted
    /\ answers # <<>>
    /\ trace.last = "backtrack"
    /\ trace.pre.b = 0
    /\ HeapTop(ms) > HeapTop(trace.start)

Submitted == pc = "idle" /\ session = "submit"

\* the last step of the stepper was a backtrack with no choice point left
FailedAtBottom == trace.last = "backtrack" /\ trace.pre.b = 0

\* C4: submit_query returns InitialQuerySuccess exactly if the fail flag is
\* clear when run_query has returned; a failure with no choice point left
\* sets PC to TopLevel(0, 0), leaves the flag set, ends the stepping loop
\* and is reported as a failure (QueryFailure when no ball is held).
C4_SubmitReportsFailFlag ==
    /\ Submitted => (result.kind = "InitialQuerySuccess" <=> ~ms.fail)
    /\ FailedAtBottom =>
          /\ ms.p = TopLevel(0, 0)
          /\ ms.fail
          /\ pc \in {"qs_match", "rq_post", "ret", "idle"}
          /\ pc = "idle" =>
                /\ result.kind \in {"QueryFailure", "QueryFailureWithException"}
                /\ ms.ball = "" => result.kind = "QueryFailure"

\* submit_query has reported QueryFailure for a query whose last clause
\* failed with no choice point left
C4_Witness ==
    /\ Submitted
    /\ FailedAtBottom
    /\ result.kind = "QueryFailure"
    /\ trace.pre.p.k = "DirEntry"

\* continue_query has returned from a call made with choice points left
Continued == pc = "idle" /\ session = "continue" /\ trace.cont.b > 0

\* the choice point that was on top when continue_query was called
TopAtContinue == trace.cont.or_stack[trace.cont.b]

\* the first instruction run by continue_query was the one at the BP of
\* the choice point on top at the call
ResumedAtBP ==
    (trace.last = "instr" /\ trace.resumed = "continue") =>
        trace.pre.p = TopAtContinue.bp

\* C5 as stated: continue_query called with choice points left resumes at
\* the BP of the top one, that choice point is popped by the time it
\* returns, and the result is SubsequentQuerySuccess exactly if the run
\* ended with the fail flag clear.
C5_PopsAndResumes ==
    /\ ResumedAtBP
    /\ Continued =>
          /\ \A i \in 1..ms.b :
                ms.or_stack[i].global_index # TopAtContinue.global_index
          /\ result.kind = "SubsequentQuerySuccess" <=> ~ms.fail

\* C5, amended: continue_query called with choice points left sets PC to
\* the BP of the top one and leaves the or-stack and every other register
\* as they are; the run resumes with the instruction at that BP; and the
\* result is SubsequentQuerySuccess exactly if the run ended with the fail
\* flag clear.
C5_ResumesAtBP ==
    /\ (trace.last = "continue" /\ trace.pre.b > 0) =>
          ms = [trace.pre EXCEPT !.p = trace.pre.or_stack[trace.pre.b].bp]
    /\ ResumedAtBP
    /\ Continued => (result.kind = "SubsequentQuerySuccess" <=> ~ms.fail)

\* continue_query has returned a further solution with the choice point
\* it resumed at still on the or-stack
C5_Witness ==
    /\ Continued
    /\ result.kind = "SubsequentQuerySuccess"
    /\ ms.b = trace.cont.b
    /\ ms.or_stack[ms.b].global_index = TopAtContinue.global_index
    /\ Len(answers) > 1

\* the query p(X) is put to a predicate of facts p(k1). ... p(kn).
FactsByVariable == program \in FactPrograms /\ query = <<CallG("p", VarX)>>

\* C6: for p(X) on the facts p(k1). ... p(kn). the solutions delivered by
\* submit_query and the continue_query calls after it are X = k1, X = k2,
\* ... in the order of the clauses in the source, the first of them by
\* submit_query, and the query is exhausted only after all n.
C6_SolutionsInSourceOrder ==
    FactsByVariable =>
        /\ Len(answers) <= Len(program)
        /\ \A i \in 1..Len(answers) : answers[i] = program[i].harg
        /\ Exhausted => Len(answers) = Len(program)
        /\ (pc = "idle" /\ result.kind = "InitialQuerySuccess") => Len(answers) = 1
        /\ (pc = "idle" /\ result.kind = "SubsequentQuerySuccess") => Len(answers) > 1

\* three or more facts whose atoms are not in alphabetical order, all of
\* them delivered and the call after the last one failed
C6_Witness ==
    /\ FactsByVariable
    /\ Exhausted
    /\ Len(answers) >= 3
    /\ answers[1] = "c2"
    /\ answers[2] = "c1"
    /\ answers[3] = "c3"

\* C7: once a cut of a clause of a predicate has run, no instruction of a
\* later clause of that predicate runs in the same query (trace.late
\* collects such instructions); with a :- b, !, c.  a :- d.  and b, d
\* defined the query a fails while c is undefined and succeeds once c is
\* defined.
C7_CutCommits ==
    /\ trace.late = {}
    /\ (program = CutProgram({"b", "d"}) /\ pc = "idle" /\ result.kind # "None")
          => result.kind = "QueryFailure"
    /\ (program = CutProgram({"b", "c", "d"}) /\ Submitted)
          => result.kind = "InitialQuerySuccess"

(***************************************************************************)
(* The top level at work on one clause (toplevel.rs).                      *)
(***************************************************************************)
\* the most goals of a conjunction of the clauses read
MaxGoals == 2

GoalAtoms == {"b", "!"}

\* the conjunctions  g1, ..., gn  as sequences of atom names
Conjs == UNION {[1..n -> GoalAtoms] : n \in 1..MaxGoals}

\* the term the reader makes of  g1, ..., gn
ConjTerm(s) == FoldAll([i \in 1..Len(s) |-> Atom(s[i])], ",")

Disj(l, r) == Cl(";", <<l, r>>)
IfThen(c, t) == Cl("->", <<c, t>>)

\* the bodies of the clauses read:  s   l ; r   c -> t   (c -> t) ; r
\* and  b, (c -> t)
Bodies ==
    {ConjTerm(s) : s \in Conjs}
    \cup {Disj(ConjTerm(l), ConjTerm(r)) : l \in Conjs, r \in Conjs}
    \cup {IfThen(ConjTerm(c), ConjTerm(t)) : c \in Conjs, t \in Conjs}
    \cup {Disj(IfThen(ConjTerm(c), ConjTerm(t)), ConjTerm(r)) :
              c \in Conjs, t \in Conjs, r \in Conjs}
    \cup {Cl(",", <<Atom("b"), IfThen(ConjTerm(c), ConjTerm(t))>>) :
              c \in Conjs, t \in Conjs}

RECURSIVE parse_queue(_, _)
\* the predicates made of self.queue, the queue growing by what the
\* clauses taken from it fabricate
parse_queue(queue, results) ==
    IF queue = <<>> THEN results
    ELSE LET r == try_terms_to_tls(Head(queue), <<>>, Tail(queue), FALSE)
         IN  parse_queue(r.queue, Append(results, merge_clauses(r.tls).pred))

\* term_to_toplevel of a clause  head :- body
TermToToplevel ==
    /\ tl_pc = "term"
    /\ IsClause(tl_term, ":-", 2)
    /\ LET r == setup_rule(tl_term.args, <<>>, TRUE)
       IN  /\ tl_rule' = r.rule
           /\ tl_queue' = r.queue
    /\ tl_pc' = "queue"
    /\ UNCHANGED <<library, machine, tl_term, tl_results>>

\* RelationWorker::parse_queue, as process_result calls it
ParseQueue ==
    /\ tl_pc = "queue"
    /\ tl_results' = parse_queue(tl_queue, <<>>)
    /\ tl_queue' = <<>>
    /\ tl_pc' = "done"
    /\ UNCHANGED <<library, machine, tl_term, tl_rule>>

NextTopLevel ==
    \/ TermToToplevel
    \/ ParseQueue

InitTL ==
    /\ InitMachine({NeckProgram})
    /\ InitTopLevel(Bodies)
    /\ Idle_library

SpecTopLevel == InitTL /\ [][NextTopLevel]_vars

(***************************************************************************)
(* C8: the cuts of a disjunction.                                          *)
(***************************************************************************)
BlockedCut == QueryTerm("BlockedCut", "", 0)
UnblockedCut == QueryTerm("UnblockedCut", "", 0)

\* the query terms of the goals s, a cut of s coming out as cut
CutsAs(s, cut) ==
    [i \in 1..Len(s) |-> IF s[i] = "!" THEN cut ELSE QueryTerm("Clause", s[i], 0)]

\* the clause of a fabricated predicate whose query terms are qts
Fabricated(qts) ==
    [name |-> "", args |-> <<Var("!")>>, qt |-> qts[1], clauses |-> Tail(qts)]

TopLevelDone == tl_pc = "done"
BodyRead == tl_term.args[2]

\* C8 as claimed: when the clause read is  a :- l ; r  or
\* a :- (c -> t) ; r,  every cut written in a branch comes out in the
\* predicate fabricated for the disjunction as the query term of blocked_!,
\* and that query term is not the one the cut of a clause's own body gets.
C8_BranchCutsBlocked ==
    TopLevelDone =>
        /\ \A l \in Conjs, r \in Conjs :
              BodyRead = Disj(ConjTerm(l), ConjTerm(r)) =>
                  tl_results = << <<Fabricated(CutsAs(l, BlockedCut)),
                                    Fabricated(CutsAs(r, BlockedCut))>> >>
        /\ \A c \in Conjs, t \in Conjs, r \in Conjs :
              BodyRead = Disj(IfThen(ConjTerm(c), ConjTerm(t)), ConjTerm(r)) =>
                  tl_results = << <<Fabricated(CutsAs(c, BlockedCut) \o <<BlockedCut>>
                                               \o CutsAs(t, BlockedCut)),
                                    Fabricated(CutsAs(r, BlockedCut))>> >>
        /\ \A s \in Conjs :
              BodyRead = ConjTerm(s) =>
                  \A i \in 1..Len(s) : s[i] = "!" => RuleTerms(tl_rule)[i] # BlockedCut

\* C8 as the code has it: every cut written in a branch of the disjunction
\* of  a :- l ; r  or  a :- (c -> t) ; r  comes out in the predicate
\* fabricated for the disjunction as UnblockedCut, the query term of the
\* cut variable; the one BlockedCut of that predicate is the blocked_! put
\* after the condition of an if-then, and BlockedCut is also what the cuts
\* of the clause's own body  a :- s  and  a :- c -> t  come out as.
C8_BranchCutsUnblocked ==
    TopLevelDone =>
        /\ \A l \in Conjs, r \in Conjs :
              BodyRead = Disj(ConjTerm(l), ConjTerm(r)) =>
                  /\ RuleTerms(tl_rule) = <<QueryTerm("Jump", "", 1)>>
                  /\ tl_results = << <<Fabricated(CutsAs(l, UnblockedCut)),
                                       Fabricated(CutsAs(r, UnblockedCut))>> >>
        /\ \A c \in Conjs, t \in Conjs, r \in Conjs :
              BodyRead = Disj(IfThen(ConjTerm(c), ConjTerm(t)), ConjTerm(r)) =>
                  /\ RuleTerms(tl_rule) = <<QueryTerm("Jump", "", 1)>>
                  /\ tl_results =
                        << <<Fabricated(CutsAs(c, UnblockedCut) \o <<BlockedCut>>
                                        \o CutsAs(t, UnblockedCut)),
                             Fabricated(CutsAs(r, UnblockedCut))>> >>
        /\ \A s \in Conjs :
              BodyRead = ConjTerm(s) =>
                  /\ RuleTerms(tl_rule) = CutsAs(s, BlockedCut)
                  /\ tl_results = <<>>
        /\ \A c \in Conjs, t \in Conjs :
              BodyRead = IfThen(ConjTerm(c), ConjTerm(t)) =>
                  /\ RuleTerms(tl_rule) = CutsAs(c, BlockedCut) \o <<BlockedCut>>
                                            \o CutsAs(t, BlockedCut)
                  /\ tl_results = <<>>

\* a disjunction with a cut in its first branch and an if-then in none has
\* been made a predicate, a clause of which begins with an UnblockedCut
C8_Witness ==
    /\ TopLevelDone
    /\ \E l \in Conjs, r \in Conjs :
          /\ BodyRead = Disj(ConjTerm(l), ConjTerm(r))
          /\ l[1] = "!"
    /\ Len(tl_results) = 1
    /\ Len(tl_results[1]) = 2
    /\ tl_results[1][1].qt = UnblockedCut

(***************************************************************************)
(* C9: catch and throw.                                                    *)
(***************************************************************************)
\* the instruction the last step executed
LastLine == lookup_instr(trace.pre.p, code, cached_query, term_expanders)[1]

\* the instruction op has just been executed
AfterInstr(op) ==
    /\ pc = "qs_fail"
    /\ trace.last = "instr"
    /\ lookup_instr(trace.pre.p, code, cached_query, term_expanders) # <<>>
    /\ LastLine.op = op

\* the instruction at p is the catch_handler of a catch
IsHandler(p) ==
    /\ lookup_instr(p, code, cached_query, term_expanders) # <<>>
    /\ lookup_instr(p, code, cached_query, term_expanders)[1].op = "CatchHandler"

\* the ball of m unifies with the catcher of the get_ball line l
BallUnifies(m, l) ==
    \/ l.x = NoArg
    \/ l.x = m.ball
    \/ /\ l.x = VarX
       /\ LET d == Deref(m, m.and_stack[m.e + 1].perms[1])
          IN  IsUnbound(d) \/ d = Con(m.ball)

\* the query  catch(goal(arg), catcher, true)  has been answered for the
\* first time
FirstAnswerOf(goal, arg, catcher) ==
    /\ pc = "idle"
    /\ session = "submit"
    /\ program = ThrowProgram
    /\ query = <<CatchG(goal, arg, catcher, "true", NoArg)>>

\* C9: (1) a throw inside a catch leaves the ball set and the or-stack cut
\* back to the choice point the innermost catch pushed, whose alternative
\* is its handler; (2) the handler, run with a ball, pops that choice point
\* and puts the or-stack, the trail and the heap back to the heights it
\* saved, the bindings trailed since undone; (3) the ball is then unified
\* with Catcher: if they unify the ball is taken and Recovery is next, if
\* not the ball stays and the or-stack is cut back to the enclosing catch's
\* choice point, or emptied if there is none; (4) catch(throw(E), E, true)
\* succeeds with E the ball, and a ball no inner catcher unifies with is
\* caught by the outer catch.
C9_CatchThrow ==
    /\ AfterInstr("Throw") /\ trace.pre.block > 0 =>
          /\ ms.fail
          /\ ms.ball = Deref(trace.pre, trace.pre.a1).c
          /\ ms.b = trace.pre.block
          /\ ms.or_stack = SubSeq(trace.pre.or_stack, 1, trace.pre.block)
          /\ IsHandler(ms.or_stack[ms.b].bp)
    /\ AfterInstr("CatchHandler") /\ trace.pre.ball # "" =>
          /\ trace.pre.b = trace.pre.block
          /\ ~ms.fail
          /\ ms.p = PtrAdd(trace.pre.p, 1)
          /\ ms.b = TopBefore.b
          /\ ms.or_stack = SubSeq(trace.pre.or_stack, 1, TopBefore.b)
          /\ RestoredFrom(ms, TopBefore)
          /\ Untrailed(ms, trace.pre, TopBefore)
          /\ ms.ball = trace.pre.ball
    /\ AfterInstr("GetBall") =>
          IF BallUnifies(trace.pre, LastLine)
          THEN /\ ~ms.fail
               /\ ms.ball = ""
               /\ ms.p = PtrAdd(trace.pre.p, 1)
               /\ LastLine.x = VarX =>
                     Deref(ms, ms.and_stack[ms.e + 1].perms[1]) = Con(trace.pre.ball)
          ELSE /\ ms.fail
               /\ ms.ball = trace.pre.ball
               /\ ms.b = trace.pre.block
               /\ ms.b > 0 => IsHandler(ms.or_stack[ms.b].bp)
    /\ \A c \in Consts :
          /\ FirstAnswerOf("thr", c, VarX) =>
                result.kind = "InitialQuerySuccess" /\ answers = <<c>>
          /\ FirstAnswerOf("inner", c, VarX) =>
                /\ result.kind = "InitialQuerySuccess"
                /\ answers = IF c = "c2" THEN <<"_">> ELSE <<"c2">>

\* inner(c3) threw c2 past its own catcher c3 and the query's catch took
\* it: catch(inner(c3), X, true) has answered X = c2
C9_Witness ==
    /\ FirstAnswerOf("inner", "c3", VarX)
    /\ result.kind = "InitialQuerySuccess"
    /\ answers = <<"c2">>

(***************************************************************************)
(* C10: an exception no catch takes.                                       *)
(***************************************************************************)
\* submit_query has returned failure, or continue_query has, called as
\* print and the tests call it: on a query whose last answer was a success
EndedInFailure ==
    /\ Exhausted
    /\ session = "submit" \/ (session = "continue" /\ ~trace.cont.fail)

MaxSols == 4

RECURSIVE Sols(_)
Sols(n) == IF n = 0 THEN <<>> ELSE <<"sol">> \o Sols(n - 1)

\* what G may do
Goals == {Sols(n) \o <<e>> : n \in 0..MaxSols, e \in {"last", "fail", "throw"}}

\* the cleaners run and left in place
run_cleaners_keeps(cleaners) == [ran |-> Len(cleaners), left |-> cleaners]

\* the cleaners run, each taken off as it runs
run_cleaners(cleaners) == [ran |-> Len(cleaners), left |-> <<>>]

\* S is called
SccSetup ==
    /\ scc_pc = "setup"
    /\ \/ /\ scc_setup' = "ok"
          /\ scc_cleaners' = <<"C">> \o scc_cleaners
          /\ scc_pc' = "call"
       \/ /\ scc_setup' = "failed"
          /\ scc_pc' = "done"
          /\ UNCHANGED scc_cleaners
    /\ UNCHANGED <<besides_cleanup, scc_goal, scc_b, scc_ran, scc_end>>

\* G is called, or retried at its choice point
SccCall ==
    /\ scc_pc = "call"
    /\ scc_goal' = Tail(scc_goal)
    /\ IF Head(scc_goal) = "sol"
       THEN /\ scc_b' = 1
            /\ scc_pc' = "exited"
            /\ UNCHANGED <<scc_cleaners, scc_ran, scc_end>>
       ELSE /\ scc_b' = 0
            /\ scc_pc' = IF Head(scc_goal) = "last" THEN "exited" ELSE "done"
            /\ scc_end' = Head(scc_goal)
            /\ scc_ran' = scc_ran + run_cleaners(scc_cleaners).ran
            /\ scc_cleaners' = run_cleaners(scc_cleaners).left
    /\ UNCHANGED <<besides_cleanup, scc_setup>>

\* what follows the call fails: back into G if it has a choice point
SccRedo ==
    /\ scc_pc = "exited"
    /\ scc_pc' = IF scc_b = 1 THEN "call" ELSE "done"
    /\ UNCHANGED <<besides_cleanup, scc_setup, scc_goal, scc_b, scc_cleaners,
                   scc_ran, scc_end>>

\* a cut after the call removes G's choice points
SccCut ==
    /\ scc_pc = "exited"
    /\ scc_b' = 0
    /\ scc_end' = IF scc_b = 1 THEN "cut" ELSE scc_end
    /\ scc_ran' = scc_ran + run_cleaners(scc_cleaners).ran
    /\ scc_cleaners' = run_cleaners(scc_cleaners).left
    /\ UNCHANGED <<besides_cleanup, scc_pc, scc_setup, scc_goal>>

\* what follows the call throws: the stack is unwound past G
SccThrowAfter ==
    /\ scc_pc = "exited"
    /\ scc_b' = 0
    /\ scc_pc' = "done"
    /\ scc_end' = IF scc_b = 1 THEN "unwound" ELSE scc_end
    /\ scc_ran' = scc_ran + run_cleaners(scc_cleaners).ran
    /\ scc_cleaners' = run_cleaners(scc_cleaners).left
    /\ UNCHANGED <<besides_cleanup, scc_setup, scc_goal>>

NextCleanup ==
    \/ SccSetup
    \/ SccCall
    \/ SccRedo
    \/ SccCut
    \/ SccThrowAfter

InitCleanup ==
    /\ Rest_cleanup
    /\ scc_pc = "setup"
    /\ scc_setup = "none"
    /\ scc_goal \in Goals
    /\ scc_b = 0
    /\ scc_cleaners = <<>>
    /\ scc_ran = 0
    /\ scc_end = "none"

SpecCleanup == InitCleanup /\ [][NextCleanup]_vars

\* G has been called and has not finished nor been cut
GoalActive == scc_pc = "call" \/ (scc_pc = "exited" /\ scc_b = 1)

\* S succeeded and G has finished or lost its choice points
GoalOver == scc_setup = "ok" /\ scc_pc \in {"exited", "done"} /\ scc_b = 0

AtomEl(c) == [t |-> "atom", c |-> c, n |-> 0]
VarEl(n) == [t |-> "var", c |-> "", n |-> n]

\* X, the template, and Y, another variable of the query
XVar == VarEl(0)
YVar == VarEl(MaxClauses + 1)

\* L: a variable, or a list of elements
ListVar == [k |-> "var", elems |-> <<>>]
List(es) == [k |-> "list", elems |-> es]

\* the proofs of Goal, by what they bind X to
Proofs == UNION {[1..n -> Consts \cup {"_"}] : n \in 0..MaxClauses}

\* the third arguments: S, [X, Y] and the lists of two atoms
Lists == {ListVar, List(<<XVar, YVar>>)}
         \cup {List(<<AtomEl(c), AtomEl(d)>>) : c \in Consts, d \in Consts}

\* the copy of the template made at the i-th proof
copy_term(x, i) == IF x = "_" THEN VarEl(i) ELSE AtomEl(x)

\* the copy put before those collected
collect_first(bag, el) == <<el>> \o bag

\* the copy put after those collected
collect(bag, el) == Append(bag, el)

\* L unified with the list collected: [ok, l: L as bound, x: X as bound]
unify_list(l, bag) ==
    IF l.k = "var" THEN [ok |-> TRUE, l |-> List(bag), x |-> "_"]
    ELSE IF Len(l.elems) # Len(bag) THEN [ok |-> FALSE, l |-> l, x |-> "_"]
    ELSE IF \E j \in 1..Len(bag) :
               l.elems[j].t = "atom" /\ bag[j].t = "atom" /\ l.elems[j] # bag[j]
         THEN [ok |-> FALSE, l |-> l, x |-> "_"]
         ELSE [ok |-> TRUE,
               l |-> List([j \in 1..Len(bag) |->
                              IF l.elems[j].t = "var" THEN bag[j] ELSE l.elems[j]]),
               x |-> IF \E j \in 1..Len(bag) : l.elems[j] = XVar /\ bag[j].t = "atom"
                     THEN (CHOOSE c \in Consts :
                              \E j \in 1..Len(bag) :
                                  l.elems[j] = XVar /\ bag[j] = AtomEl(c))
                     ELSE "_"]

\* findall is called: nothing collected yet
FindallCall ==
    /\ fa_pc = "call"
    /\ fa_bag' = <<>>
    /\ fa_i' = 1
    /\ fa_pc' = "solve"
    /\ UNCHANGED <<besides_findall, fa_proofs, fa_x, fa_l, fa_res, fa_out>>

\* Goal is proved once more
FindallProof ==
    /\ fa_pc = "solve"
    /\ fa_i <= Len(fa_proofs)
    /\ fa_x' = fa_proofs[fa_i]
    /\ fa_pc' = "collect"
    /\ UNCHANGED <<besides_findall, fa_proofs, fa_i, fa_bag, fa_l, fa_res, fa_out>>

\* the template is copied and Goal is backtracked into
FindallCollect ==
    /\ fa_pc = "collect"
    /\ fa_bag' = collect(fa_bag, copy_term(fa_x, fa_i))
    /\ fa_x' = "_"
    /\ fa_i' = fa_i + 1
    /\ fa_pc' = "solve"
    /\ UNCHANGED <<besides_findall, fa_proofs, fa_l, fa_res, fa_out>>

\* Goal has no more proofs: L is unified with the list collected
FindallUnify ==
    /\ fa_pc = "solve"
    /\ fa_i > Len(fa_proofs)
    /\ LET u == unify_list(fa_l, fa_bag)
       IN  /\ fa_out' = IF u.ok THEN "true" ELSE "false"
           /\ fa_res' = u.l
           /\ fa_x' = IF u.ok THEN u.x ELSE "_"
    /\ fa_pc' = "done"
    /\ UNCHANGED <<besides_findall, fa_proofs, fa_i, fa_bag, fa_l>>

NextFindall ==
    \/ FindallCall
    \/ FindallProof
    \/ FindallCollect
    \/ FindallUnify

InitFindall ==
    /\ Rest_findall
    /\ fa_pc = "call"
    /\ fa_proofs \in Proofs
    /\ fa_i = 0
    /\ fa_x = "_"
    /\ fa_bag = <<>>
    /\ fa_l \in Lists
    /\ fa_res = ListVar
    /\ fa_out = "none"

SpecFindall == InitFindall /\ [][NextFindall]_vars

FindallDone == fa_pc = "done" /\ fa_out = "true"

\* the elements of L are the atoms the proofs bound X to, in their order
ValuesInOrder ==
    /\ Len(fa_res.elems) = Len(fa_proofs)
    /\ \A j \in 1..Len(fa_proofs) : fa_res.elems[j] = AtomEl(fa_proofs[j])

Ground(l) == l.k = "list" /\ \A j \in 1..Len(l.elems) : l.elems[j].t = "atom"

\* C12 as claimed: when findall has succeeded L is a ground list of the
\* values the proofs bound X to, in order, and X is unbound.
C12_GroundListXUnbound ==
    FindallDone =>
        /\ Ground(fa_res)
        /\ ValuesInOrder
        /\ fa_x = "_"

\* C12 as the spec's findall has it: the list collected holds one copy of
\* X for each proof in solution order, the atom the proof bound X to or a
\* fresh variable of its own if the proof left X unbound, and is empty when
\* Goal has no proof; X is unbound whenever Goal is left; called with L a
\* variable findall succeeds, L is that list and X stays unbound, and L is
\* ground with ValuesInOrder if every proof bound X; an atom is an element
\* of it iff some proof bound X to it; called with L a list, X is bound
\* afterwards only if L holds X at a place where the list has an atom.
C12_CopiesInOrder ==
    /\ fa_pc = "solve" => fa_x = "_"
    /\ fa_pc = "done" =>
          /\ Len(fa_bag) = Len(fa_proofs)
          /\ \A j \in 1..Len(fa_proofs) :
                IF fa_proofs[j] = "_"
                THEN /\ fa_bag[j].t = "var"
                     /\ fa_bag[j] \notin {XVar, YVar}
                     /\ \A k \in 1..Len(fa_proofs) : k # j => fa_bag[k] # fa_bag[j]
                ELSE fa_bag[j] = AtomEl(fa_proofs[j])
          /\ fa_x # "_" =>
                /\ FindallDone
                /\ \E j \in 1..Len(fa_bag) :
                       fa_l.elems[j] = XVar /\ fa_bag[j] = AtomEl(fa_x)
          /\ fa_l = ListVar =>
                /\ FindallDone
                /\ fa_res = List(fa_bag)
                /\ fa_x = "_"
                /\ (\A j \in 1..Len(fa_proofs) : fa_proofs[j] # "_") =>
                       Ground(fa_res) /\ ValuesInOrder
                /\ \A c \in Consts :
                       (\E j \in 1..Len(fa_res.elems) : fa_res.elems[j] = AtomEl(c))
                       <=> (\E j \in 1..Len(fa_proofs) : fa_proofs[j] = c)

\* proofs binding X to different atoms have been collected in order
C12_Witness ==
    /\ FindallDone
    /\ fa_l = ListVar
    /\ Len(fa_proofs) >= 2
    /\ fa_proofs[1] # fa_proofs[2]
    /\ Ground(fa_res)
    /\ ValuesInOrder
    /\ fa_x = "_"

(***************************************************************************)
(* A dynamic predicate and a query iterating over its clauses.             *)
(*   dy_vecs: the clause vectors made so far; dy_cur: the vector that is   *)
(*   the predicate's clause list; dy_it: the vector the query iterates     *)
(*   over; dy_pos: the next clause it tries; dy_seen: the clauses it has   *)
(*   tried; dy_at_call: the clause list when it was called; dy_n: the      *)
(*   updates made                                                          *)
(***************************************************************************)
MaxUpdates == 3

\* the clause list changed in place
write_in_place(vecs, cur, new) == [vecs |-> [vecs EXCEPT ![cur] = new], cur |-> cur]

\* the clause list changed: a new vector takes the place of the current one
copy_on_write(vecs, cur, new) == [vecs |-> Append(vecs, new), cur |-> Len(vecs) + 1]

\* the clause list without its first clause c
RECURSIVE remove_first(_, _)
remove_first(clauses, c) ==
    IF clauses = <<>> THEN <<>>
    ELSE IF Head(clauses) = c THEN Tail(clauses)
    ELSE <<Head(clauses)>> \o remove_first(Tail(clauses), c)

DynUpdate(new) ==
    /\ dy_n < MaxUpdates
    /\ LET w == copy_on_write(dy_vecs, dy_cur, new)
       IN  dy_vecs' = w.vecs /\ dy_cur' = w.cur
    /\ dy_n' = dy_n + 1
    /\ UNCHANGED <<besides_dynamic, dy_pc, dy_it, dy_pos, dy_seen, dy_at_call>>

\* asserta(c)
DynAsserta == \E c \in Consts : DynUpdate(<<c>> \o dy_vecs[dy_cur])

\* assertz(c)
DynAssertz == \E c \in Consts : DynUpdate(Append(dy_vecs[dy_cur], c))

\* retract(c)
DynRetract ==
    \E c \in Consts :
        /\ \E j \in 1..Len(dy_vecs[dy_cur]) : dy_vecs[dy_cur][j] = c
        /\ DynUpdate(remove_first(dy_vecs[dy_cur], c))

\* the query calls the predicate
DynCall ==
    /\ dy_pc = "call"
    /\ dy_it' = dy_cur
    /\ dy_pos' = 1
    /\ dy_at_call' = dy_vecs[dy_cur]
    /\ dy_pc' = "iterate"
    /\ UNCHANGED <<besides_dynamic, dy_vecs, dy_cur, dy_seen, dy_n>>

\* the query tries the next clause
DynNext ==
    /\ dy_pc = "iterate"
    /\ dy_pos <= Len(dy_vecs[dy_it])
    /\ dy_seen' = Append(dy_seen, dy_vecs[dy_it][dy_pos])
    /\ dy_pos' = dy_pos + 1
    /\ UNCHANGED <<besides_dynamic, dy_pc, dy_vecs, dy_cur, dy_it, dy_at_call, dy_n>>

\* no clause is left to try
DynEnd ==
    /\ dy_pc = "iterate"
    /\ dy_pos > Len(dy_vecs[dy_it])
    /\ dy_pc' = "done"
    /\ UNCHANGED <<besides_dynamic, dy_vecs, dy_cur, dy_it, dy_pos, dy_seen, dy_at_call, dy_n>>

NextDynamic ==
    \/ DynAsserta
    \/ DynAssertz
    \/ DynRetract
    \/ DynCall
    \/ DynNext
    \/ DynEnd

InitDynamic ==
    /\ Rest_dynamic
    /\ dy_pc = "call"
    /\ dy_vecs \in {<<v>> : v \in UNION {[1..n -> Consts] : n \in 0..2}}
    /\ dy_cur = 1
    /\ dy_it = 0
    /\ dy_pos = 0
    /\ dy_seen = <<>>
    /\ dy_at_call = <<>>
    /\ dy_n = 0

SpecDynamic == InitDynamic /\ [][NextDynamic]_vars

\* C13: a query iterating over a dynamic predicate tries the clauses the
\* predicate had when it was called, in their order, whatever asserta,
\* assertz and retract do in the meantime: an added clause is not tried and
\* a retracted one still is.
C13_LogicalUpdateView ==
    /\ dy_pc = "iterate" =>
          /\ dy_pos - 1 <= Len(dy_at_call)
          /\ dy_seen = SubSeq(dy_at_call, 1, dy_pos - 1)
    /\ dy_pc = "done" => dy_seen = dy_at_call

\* the query has tried all the clauses of the call while one was retracted
\* and one added
C13_Witness ==
    /\ dy_pc = "done"
    /\ Len(dy_seen) = 2
    /\ dy_vecs[dy_cur] # dy_at_call
    /\ \E j \in 1..2 : \A k \in 1..Len(dy_vecs[dy_cur]) : dy_vecs[dy_cur][k] # dy_seen[j]
    /\ \E k \in 1..Len(dy_vecs[dy_cur]) : \A j \in 1..2 : dy_vecs[dy_cur][k] # dy_seen[j]

(***************************************************************************)
(* The code directory.                                                     *)
(*   cd_code: the global code directory; cd_ops: the global operator       *)
(*   directory; cd_mods: the modules loaded; cd_call: the last operation   *)
(*   and its result; cd_before: cd_code and cd_ops before it               *)
(***************************************************************************)
MaxBatch == 2

PlainKeys == {<<"p", 1>>, <<"q", 2>>}
BuiltInKeys == {<<"is", 2>>}
Keys == PlainKeys \cup BuiltInKeys
OpKeys == {<<"p", "Pre">>, <<"p", "Post">>, <<"q", "In">>}
ModuleNames == {"m1", "m2", "m3"}

\* a code index: ptr 0 is IndexPtr::Undefined; NoIdx stands for no entry
Idx(ptr, module) == [ptr |-> ptr, module |-> module]
NoIdx == Idx(0 - 1, "")
is_undefined(idx) == idx.ptr = 0

EmptyDir == [k \in Keys |-> NoIdx]
NoOps == [o \in OpKeys |-> ""]

\* the name/arity is not one of a built-in
IsNamed(key) == key \notin BuiltInKeys

\* the batches: up to MaxBatch keys compiled at the top level or in m1
Batches ==
    {b \in [Keys -> {NoIdx} \cup {Idx(ptr, m) : ptr \in 0..1, m \in {"user", "m1"}}] :
        /\ \E k \in Keys : b[k] # NoIdx
        /\ Cardinality({k \in Keys : b[k] # NoIdx}) <= MaxBatch
        /\ \A k, l \in Keys : b[k] # NoIdx /\ b[l] # NoIdx => b[k].module = b[l].module}

get_code_index_global(cdir, modules, key, module) ==
    IF module \in {"user", "builtin"} THEN cdir[key]
    ELSE IF module \in DOMAIN modules /\ modules[module].code_dir[key] # NoIdx
         THEN modules[module].code_dir[key]
         ELSE cdir[key]

get_code_index(cdir, modules, key, module) ==
    IF module \in {"user", "builtin"} THEN cdir[key]
    ELSE IF module \in DOMAIN modules THEN modules[module].code_dir[key]
         ELSE NoIdx

insert_dir_entry(cdir, key, idx) == [cdir EXCEPT ![key] = idx]

\* the error add_batched_code finds at a key of the batch, checking whatever
\* module defined the key before
batch_error_any_module(cdir, key, idx) ==
    IF ~IsNamed(key) THEN "CannotOverwriteBuiltIn"
    ELSE IF /\ cdir[key] # NoIdx
            /\ ~is_undefined(cdir[key]) /\ ~is_undefined(idx)
            /\ cdir[key].module # idx.module
         THEN "CannotOverwriteImport"
         ELSE "Ok"

\* the error add_batched_code finds at a key of the batch
batch_error(cdir, key, idx) ==
    IF ~IsNamed(key) THEN "CannotOverwriteBuiltIn"
    ELSE IF /\ cdir[key] # NoIdx
            /\ ~is_undefined(cdir[key]) /\ ~is_undefined(idx)
            /\ cdir[key].module # "user"
            /\ cdir[key].module # idx.module
         THEN "CannotOverwriteImport"
         ELSE "Ok"

\* the outcomes of add_batched_code: the keys are gone through in the order
\* of the hash map, so any of the errors there are is the one returned
add_batched_code(cdir, batch) ==
    LET errs == {batch_error(cdir, k, batch[k]) : k \in {l \in Keys : batch[l] # NoIdx}}
                \ {"Ok"}
    IN  IF errs # {}
        THEN {[res |-> e, code_dir |-> cdir] : e \in errs}
        ELSE {[res |-> "Ok",
               code_dir |-> [k \in Keys |-> IF batch[k] # NoIdx THEN batch[k]
                                             ELSE cdir[k]]]}

import_decl(user, key, submodule) ==
    LET fixes == IF key[2] = 1 THEN {"Pre", "Post"}
                 ELSE IF key[2] = 2 THEN {"In"} ELSE {}
        found == {o \in OpKeys : o[1] = key[1] /\ o[2] \in fixes /\ submodule.op_dir[o] # ""}
    IN  [ok |-> submodule.code_dir[key] # NoIdx \/ found # {},
         code_dir |-> IF submodule.code_dir[key] # NoIdx
                      THEN insert_dir_entry(user.code_dir, key, submodule.code_dir[key])
                      ELSE user.code_dir,
         op_dir |-> [o \in OpKeys |-> IF o \in found THEN submodule.op_dir[o]
                                       ELSE user.op_dir[o]]]

InSeq(x, seq) == \E j \in 1..Len(seq) : seq[j] = x

\* use_qualified_module importing the listed keys whether exported or not
RECURSIVE use_qualified_module_any(_, _, _)
use_qualified_module_any(user, submodule, exports) ==
    IF exports = <<>> THEN [res |-> "Ok", code_dir |-> user.code_dir, op_dir |-> user.op_dir]
    ELSE LET r == import_decl(user, Head(exports), submodule)
         IN  IF ~r.ok
             THEN [res |-> "ModuleDoesNotContainExport",
                   code_dir |-> r.code_dir, op_dir |-> r.op_dir]
             ELSE use_qualified_module_any([code_dir |-> r.code_dir, op_dir |-> r.op_dir],
                                           submodule, Tail(exports))

RECURSIVE use_qualified_module(_, _, _)
use_qualified_module(user, submodule, exports) ==
    IF exports = <<>> THEN [res |-> "Ok", code_dir |-> user.code_dir, op_dir |-> user.op_dir]
    ELSE IF ~InSeq(Head(exports), submodule.exports)
         THEN use_qualified_module(user, submodule, Tail(exports))
         ELSE LET r == import_decl(user, Head(exports), submodule)
              IN  IF ~r.ok
                  THEN [res |-> "ModuleDoesNotContainExport",
                        code_dir |-> r.code_dir, op_dir |-> r.op_dir]
                  ELSE use_qualified_module([code_dir |-> r.code_dir, op_dir |-> r.op_dir],
                                            submodule, Tail(exports))

RECURSIVE use_module_from(_, _, _)
use_module_from(user, submodule, exports) ==
    IF exports = <<>> THEN [res |-> "Ok", code_dir |-> user.code_dir, op_dir |-> user.op_dir]
    ELSE LET r == import_decl(user, Head(exports), submodule)
         IN  IF ~r.ok
             THEN [res |-> "ModuleDoesNotContainExport",
                   code_dir |-> r.code_dir, op_dir |-> r.op_dir]
             ELSE use_module_from([code_dir |-> r.code_dir, op_dir |-> r.op_dir],
                                  submodule, Tail(exports))

use_module(user, submodule) == use_module_from(user, submodule, submodule.exports)

\* the lists of keys without repetition
KeyLists ==
    {<<>>} \cup {<<k>> : k \in PlainKeys}
    \cup {<<kl[1], kl[2]>> : kl \in {x \in PlainKeys \X PlainKeys : x[1] # x[2]}}

\* a module: its name, its export list, its code and its operators
Module(name, exports, defined, ops) ==
    [name |-> name, exports |-> exports,
     code_dir |-> [k \in Keys |-> IF k \in defined THEN Idx(1, name) ELSE NoIdx],
     op_dir |-> [o \in OpKeys |-> IF o \in ops THEN name ELSE ""]]

\* the module directories: m1 as it may have been compiled, with a prefix
\* operator p of its own, m2, and no m3
ModuleDirs ==
    {[m \in {"m1", "m2"} |->
        IF m = "m1" THEN Module("m1", exports, defined, {<<"p", "Pre">>})
        ELSE Module("m2", <<<<"q", 2>>>>, {<<"q", 2>>}, {})] :
        exports \in KeyLists, defined \in SUBSET PlainKeys}

Call(op, module, key, batch, list, res, idx) ==
    [op |-> op, module |-> module, key |-> key, batch |-> batch, list |-> list,
     res |-> res, idx |-> idx]

CDUser == [code_dir |-> cd_code, op_dir |-> cd_ops]

AddBatchedCode ==
    \E batch \in Batches :
        \E r \in add_batched_code(cd_code, batch) :
            /\ cd_code' = r.code_dir
            /\ cd_call' = Call("add_batched_code", "", <<"", 0>>, batch, <<>>, r.res, NoIdx)
            /\ cd_before' = CDUser
            /\ UNCHANGED <<besides_directory, cd_ops, cd_mods>>

GetCodeIndex ==
    \E key \in Keys, module \in {"user", "builtin"} \cup ModuleNames :
        /\ cd_call' = Call("get_code_index", module, key, EmptyDir, <<>>, "",
                           get_code_index(cd_code, cd_mods, key, module))
        /\ cd_before' = CDUser
        /\ UNCHANGED <<besides_directory, cd_code, cd_ops, cd_mods>>

UseModule ==
    \E m \in DOMAIN cd_mods :
        LET r == use_module(CDUser, cd_mods[m])
        IN  /\ cd_code' = r.code_dir
            /\ cd_ops' = r.op_dir
            /\ cd_call' = Call("use_module", m, <<"", 0>>, EmptyDir, <<>>, r.res, NoIdx)
            /\ cd_before' = CDUser
            /\ UNCHANGED <<besides_directory, cd_mods>>

UseQualifiedModule ==
    \E m \in DOMAIN cd_mods, exports \in KeyLists :
        LET r == use_qualified_module(CDUser, cd_mods[m], exports)
        IN  /\ cd_code' = r.code_dir
            /\ cd_ops' = r.op_dir
            /\ cd_call' = Call("use_qualified_module", m, <<"", 0>>, EmptyDir, exports,
                               r.res, NoIdx)
            /\ cd_before' = CDUser
            /\ UNCHANGED <<besides_directory, cd_mods>>

NextDirectory ==
    \/ AddBatchedCode
    \/ GetCodeIndex
    \/ UseModule
    \/ UseQualifiedModule

InitDirectory ==
    /\ Rest_directory
    /\ cd_code = EmptyDir
    /\ cd_ops = NoOps
    /\ cd_mods \in ModuleDirs
    /\ cd_call = Call("none", "", <<"", 0>>, EmptyDir, <<>>, "", NoIdx)
    /\ cd_before = [code_dir |-> EmptyDir, op_dir |-> NoOps]

SpecDirectory == InitDirectory /\ [][NextDirectory]_vars

BatchKeys(batch) == {k \in Keys : batch[k] # NoIdx}

Defined(idx) == idx # NoIdx /\ ~is_undefined(idx)

Rejected == cd_call.res \in {"CannotOverwriteBuiltIn", "CannotOverwriteImport"}

\* C14 as claimed: add_batched_code rejects every batch with a key of a
\* built-in, or defining a key that a different module has defined in the
\* code directory.
C14_RejectsOtherModules ==
    cd_call.op = "add_batched_code" =>
        ((\E k \in BatchKeys(cd_call.batch) :
             \/ ~IsNamed(k)
             \/ /\ Defined(cd_call.batch[k])
                /\ Defined(cd_before.code_dir[k])
                /\ cd_before.code_dir[k].module # cd_call.batch[k].module)
         => Rejected)

\* C14 as the code has it: add_batched_code rejects a batch iff it has a
\* key of a built-in, or defines a key that a module other than "user" and
\* other than the batch's has defined in the code directory; a rejected
\* batch leaves the code directory as it was, and of an accepted one every
\* key is in the directory with the batch's index, keys defined by "user"
\* included.
C14_RejectsOtherModulesButUser ==
    cd_call.op = "add_batched_code" =>
        /\ Rejected <=>
              \E k \in BatchKeys(cd_call.batch) :
                  \/ ~IsNamed(k)
                  \/ /\ Defined(cd_call.batch[k])
                     /\ Defined(cd_before.code_dir[k])
                     /\ cd_before.code_dir[k].module \notin {"user", cd_call.batch[k].module}
        /\ Rejected => cd_code = cd_before.code_dir
        /\ ~Rejected =>
              /\ cd_call.res = "Ok"
              /\ \A k \in Keys :
                    cd_code[k] = IF k \in BatchKeys(cd_call.batch) THEN cd_call.batch[k]
                                 ELSE cd_before.code_dir[k]

\* a batch of m1 is rejected for a key imported from m2
C14_Witness ==
    /\ cd_call.op = "add_batched_code"
    /\ cd_call.res = "CannotOverwriteImport"
    /\ \E k \in BatchKeys(cd_call.batch) :
          cd_before.code_dir[k].module = "m2" /\ cd_call.batch[k] = Idx(1, "m1")

\* C15: a key looked up in module "user" or "builtin" is resolved in the
\* global code directory; looked up in any other module it is resolved in
\* that module's code directory only, to nothing if the module is not
\* loaded or has no such key, whatever the global directory holds.
C15_LookupByModule ==
    cd_call.op = "get_code_index" =>
        /\ cd_call.module \in {"user", "builtin"} => cd_call.idx = cd_code[cd_call.key]
        /\ cd_call.module \notin {"user", "builtin"} =>
              /\ cd_call.module \notin DOMAIN cd_mods => cd_call.idx = NoIdx
              /\ cd_call.module \in DOMAIN cd_mods =>
                    cd_call.idx = cd_mods[cd_call.module].code_dir[cd_call.key]

\* a key the global directory holds is not found in a module without it
C15_Witness ==
    /\ cd_call.op = "get_code_index"
    /\ cd_call.module = "m1"
    /\ cd_code[cd_call.key] # NoIdx
    /\ cd_mods["m1"].code_dir[cd_call.key] = NoIdx
    /\ cd_call.idx = NoIdx

\* the keys use_module and use_qualified_module go through
RECURSIVE Exported(_, _)
Exported(list, exports) ==
    IF list = <<>> THEN <<>>
    ELSE IF InSeq(Head(list), exports)
         THEN <<Head(list)>> \o Exported(Tail(list), exports)
         ELSE Exported(Tail(list), exports)

Listed ==
    IF cd_call.op = "use_module" THEN cd_mods[cd_call.module].exports
    ELSE Exported(cd_call.list, cd_mods[cd_call.module].exports)

OpKeyOf(key) ==
    {o \in OpKeys : o[1] = key[1] /\ o[2] \in (IF key[2] = 1 THEN {"Pre", "Post"}
                                              ELSE IF key[2] = 2 THEN {"In"} ELSE {})}

\* the submodule has code or an operator for the key
Has(module, key) ==
    \/ module.code_dir[key] # NoIdx
    \/ \E o \in OpKeyOf(key) : module.op_dir[o] # ""

\* the place of the first key gone through that the submodule does not have
Missing(module, list) ==
    IF \E j \in 1..Len(list) : ~Has(module, list[j])
    THEN CHOOSE j \in 1..Len(list) :
             ~Has(module, list[j]) /\ \A i \in 1..(j - 1) : Has(module, list[i])
    ELSE Len(list) + 1

Importing == cd_call.op \in {"use_module", "use_qualified_module"}

\* C16 as claimed: use_module imports every key that M exports and
\* use_qualified_module every listed key that M exports.
C16_ImportsEveryExport ==
    Importing =>
        \A j \in 1..Len(Listed) :
            cd_mods[cd_call.module].code_dir[Listed[j]] # NoIdx =>
                cd_code[Listed[j]] = cd_mods[cd_call.module].code_dir[Listed[j]]

\* C16 as the code has it: use_module goes through M's exports and
\* use_qualified_module through the listed keys that M exports, in order,
\* up to the first of them that M has neither code nor an operator for,
\* where it stops with ModuleDoesNotContainExport; the code and the
\* operators of the keys before that place are imported, and no other entry
\* of the code directory or of the operators changes: a listed key that M
\* does not export is skipped without error and no export outside the list
\* is imported.
C16_ImportsUpToMissing ==
    Importing =>
        LET m == cd_mods[cd_call.module]
            n == Missing(m, Listed)
            done == {Listed[j] : j \in 1..(n - 1)}
        IN  /\ cd_call.res = IF n > Len(Listed) THEN "Ok" ELSE "ModuleDoesNotContainExport"
            /\ \A k \in Keys :
                  cd_code[k] = IF k \in done /\ m.code_dir[k] # NoIdx THEN m.code_dir[k]
                               ELSE cd_before.code_dir[k]
            /\ \A o \in OpKeys :
                  cd_ops[o] = IF m.op_dir[o] # "" /\ \E k \in done : o \in OpKeyOf(k)
                              THEN m.op_dir[o]
                              ELSE cd_before.op_dir[o]

\* of the two listed keys that m1 defines, the exported one has been
\* imported and the other has not
C16_Witness ==
    /\ cd_call.op = "use_qualified_module"
    /\ cd_call.module = "m1"
    /\ cd_call.res = "Ok"
    /\ cd_call.list = <<<<"q", 2>>, <<"p", 1>>>>
    /\ cd_mods["m1"].exports = <<<<"p", 1>>>>
    /\ cd_mods["m1"].code_dir[<<"q", 2>>] # NoIdx
    /\ cd_code[<<"p", 1>>] = Idx(1, "m1")
    /\ cd_code[<<"q", 2>>] = NoIdx

(***************************************************************************)
(* The variables recorded for the printer.                                 *)
(***************************************************************************)
\* the variables of the query that record_var_places is to record
Named == {vd \in alloc_locs : vd.kind = "Perm" \/ vd.reg # 0}

\* C17: when submit_query has returned InitialQuerySuccess, heap_locs has
\* an address for every variable of the query's alloc_locs that is
\* permanent or a temporary with a register, of whatever chunk.
C17_NamedVariablesRecorded ==
    pc = "idle" /\ result.kind = "InitialQuerySuccess" =>
        \A vd \in Named : vd.var \in DOMAIN heap_locs

\* a query has succeeded with its permanent X and its temporary T of the
\* second chunk both recorded, T at the cell the second call bound
C17_Witness ==
    /\ pc = "idle"
    /\ result.kind = "InitialQuerySuccess"
    /\ \E vd \in alloc_locs : vd.kind = "Perm"
    /\ \E vd \in alloc_locs : vd.kind = "Temp" /\ vd.cn = 1
    /\ {VarX, VarT} \subseteq DOMAIN heap_locs
    /\ Deref(ms, heap_locs[VarT]).t = "Con"

(***************************************************************************)
(* Arithmetic: X is Left op Right, in a catch/3 or not.                    *)
(*   ar_pc: where the goal stands; ar_op, ar_xt, ar_x, ar_y: the operator, *)
(*   the type of the left operand and the two operands; ar_val: the value  *)
(*   computed; ar_ball: the error raised; ar_lhs: the binding of X;        *)
(*   ar_catch: the goal is called in catch(_, error(evaluation_error(E),   *)
(*   _), true); ar_e: the binding of E                                     *)
(***************************************************************************)
MaxInt == 10

Ints == (0 - MaxInt)..MaxInt

\* a number of the tower: an integer n, a rational n/d or a float n/d
Num(t, n, d) == [t |-> t, n |-> n, d |-> d]
NoNum == Num("none", 0, 1)

Abs(x) == IF x < 0 THEN 0 - x ELSE x
Sign(x) == IF x < 0 THEN 0 - 1 ELSE IF x > 0 THEN 1 ELSE 0

RECURSIVE Gcd(_, _)
Gcd(a, b) == IF b = 0 THEN a ELSE Gcd(b, a % b)

\* n/d in lowest terms with a positive denominator
Ratio(t, n, d) ==
    LET g == Gcd(Abs(n), Abs(d))
    IN  Num(t, Sign(d) * (n \div g), Abs(d) \div g)

\* x // y, truncating
int_div(x, y) == Sign(x) * Sign(y) * (Abs(x) \div Abs(y))

\* x rem y
rem(x, y) == x - y * int_div(x, y)

\* x mod y taking the sign of the dividend
mod_of_dividend(x, y) == x - y * int_div(x, y)

\* x mod y
mod(x, y) ==
    LET r == rem(x, y)
    IN  IF r # 0 /\ Sign(r) # Sign(y) THEN r + y ELSE r

\* the division has no value when either operand is zero
zero_operand(op, x, y) == y = 0 \/ x = 0

\* the division has no value
zero_divisor(op, x, y) == y = 0

ZeroDivisor == "error(evaluation_error(zero_divisor),_)"

\* Left op Right evaluated: its value, or the error raised
eval(op, xt, x, y) ==
    IF zero_divisor(op, x, y) THEN [val |-> NoNum, ball |-> ZeroDivisor]
    ELSE [val |-> CASE op = "//" -> Num("int", int_div(x, y), 1)
                    [] op = "/" -> Ratio("float", x, y)
                    [] op = "rdiv" -> Ratio("rat", x, y)
                    [] op = "mod" -> Num("int", mod(x, y), 1)
                    [] OTHER -> Num("int", rem(x, y), 1),
          ball |-> ""]

\* the right-hand side is evaluated
ArithEval ==
    /\ ar_pc = "eval"
    /\ LET r == eval(ar_op, ar_xt, ar_x, ar_y)
       IN  /\ ar_val' = r.val
           /\ ar_ball' = r.ball
           /\ ar_pc' = IF r.ball = "" THEN "bind" ELSE "raised"
    /\ UNCHANGED <<besides_arith, ar_op, ar_xt, ar_x, ar_y, ar_lhs, ar_catch, ar_e>>

\* the value is unified with X
ArithBind ==
    /\ ar_pc = "bind"
    /\ ar_lhs' = ar_val
    /\ ar_pc' = "true"
    /\ UNCHANGED <<besides_arith, ar_op, ar_xt, ar_x, ar_y, ar_val, ar_ball, ar_catch, ar_e>>

\* the error reaches the catch/3 around the goal
ArithCatch ==
    /\ ar_pc = "raised"
    /\ ar_catch
    /\ ar_e' = IF ar_ball = ZeroDivisor THEN "zero_divisor" ELSE ""
    /\ ar_ball' = ""
    /\ ar_pc' = "caught"
    /\ UNCHANGED <<besides_arith, ar_op, ar_xt, ar_x, ar_y, ar_val, ar_lhs, ar_catch>>

\* the error reaches the top level
ArithUncaught ==
    /\ ar_pc = "raised"
    /\ ~ar_catch
    /\ ar_pc' = "failed"
    /\ UNCHANGED <<besides_arith, ar_op, ar_xt, ar_x, ar_y, ar_val, ar_ball, ar_lhs,
                   ar_catch, ar_e>>

NextArith ==
    \/ ArithEval
    \/ ArithBind
    \/ ArithCatch
    \/ ArithUncaught

InitArith ==
    /\ Rest_arith
    /\ ar_pc = "eval"
    /\ ar_op \in {"//", "/", "rdiv", "mod", "rem"}
    /\ ar_xt \in IF ar_op = "/" THEN {"int", "rat", "float"} ELSE {"int"}
    /\ ar_x \in Ints
    /\ ar_y \in Ints
    /\ ar_val = NoNum
    /\ ar_ball = ""
    /\ ar_lhs = NoNum
    /\ ar_catch \in BOOLEAN
    /\ ar_e = ""

SpecArith == InitArith /\ [][NextArith]_vars

Divisions == {"//", "/", "rdiv"}

\* C18: X is Left op 0 for op one of //, / and rdiv raises
\* error(evaluation_error(zero_divisor), _), which a catch/3 around the goal
\* catches with E = zero_divisor, and X is unbound throughout; no error is
\* raised for another divisor.
C18_ZeroDivisor ==
    ar_op \in Divisions /\ ar_pc # "eval" =>
        /\ ar_y = 0 =>
              /\ ar_pc \in {"raised", "caught", "failed"}
              /\ ar_pc \in {"raised", "failed"} => ar_ball = ZeroDivisor
              /\ ar_pc = "caught" => ar_e = "zero_divisor"
              /\ ar_pc # "raised" => (ar_pc = "caught" <=> ar_catch)
              /\ ar_lhs = NoNum
        /\ ar_y # 0 => ar_pc \in {"bind", "true"} /\ ar_ball = ""

\* the error of f(X) :- X is 5 // 0 has been caught
C18_Witness ==
    /\ ar_op = "//"
    /\ ar_x = 5
    /\ ar_y = 0
    /\ ar_pc = "caught"
    /\ ar_e = "zero_divisor"
    /\ ar_lhs = NoNum

\* C19: X mod Y is zero or has the sign of Y, X rem Y is zero or has the
\* sign of X; both are smaller than Y in absolute value and differ from X
\* by a multiple of Y.
C19_ModRemSigns ==
    ar_op \in {"mod", "rem"} /\ ar_pc = "true" =>
        /\ ar_lhs.t = "int"
        /\ Abs(ar_lhs.n) < Abs(ar_y)
        /\ \E q \in (0 - MaxInt)..MaxInt : ar_x = q * ar_y + ar_lhs.n
        /\ ar_op = "mod" => ar_lhs.n = 0 \/ Sign(ar_lhs.n) = Sign(ar_y)
        /\ ar_op = "rem" => ar_lhs.n = 0 \/ Sign(ar_lhs.n) = Sign(ar_x)

\* X is 10 mod -3 has given X = -2
C19_Witness ==
    /\ ar_op = "mod"
    /\ ar_x = 10
    /\ ar_y = 0 - 3
    /\ ar_pc = "true"
    /\ ar_lhs = Num("int", 0 - 2, 1)

(***************************************************************************)
(* Operator declarations: :- op(Priority, Specifier, Name).                *)
(*   od_pc: where the declaration stands; od_terms: the three arguments;   *)
(*   od_res: what setup_op_decl returned                                   *)
(***************************************************************************)
\* the arguments: constants (integers, atoms, characters, floats),
\* variables and compound terms
Constant(t, n, str) == [t |-> t, n |-> n, s |-> str]
Integer(n) == Constant("Integer", n, "")
AtomC(str) == Constant("Atom", 0, str)
Char(c) == Constant("Char", 0, c)
Others == {Constant("Float", 0, ""), Constant("Var", 0, ""), Constant("Clause", 0, "")}

Specifiers == {"xfx", "xfy", "yfx", "fx", "fy", "xf", "yf"}

Priorities == {Integer(n) : n \in {0 - 1, 0, 700, 1199, 1200, 1201}} \cup Others
SpecifierTerms ==
    {AtomC(str) : str \in Specifiers \cup {"xyx", "f"}} \cup {Char("f"), Integer(700)}
    \cup Others
Names == {AtomC("+"), AtomC("foo"), Char("a"), Integer(1)} \cup Others

\* Result<OpDecl, ParserError>
OkDecl(prec, spec, name) == [ok |-> TRUE, prec |-> prec, spec |-> spec, name |-> name, err |-> ""]
ErrDecl(err) == [ok |-> FALSE, prec |-> 0, spec |-> "", name |-> "", err |-> err]

to_op_decl(prec, spec, name) ==
    IF spec \in Specifiers THEN OkDecl(prec, spec, name) ELSE ErrDecl("InconsistentEntry")

\* the priority read without its upper bound
prec_of_any(term) ==
    IF term.t = "Integer" /\ term.n >= 0 THEN term.n ELSE 0 - 1

\* the priority of setup_op_decl: bi.to_usize() with n <= 1200, -1 for the
\* arms that return the error
prec_of(term) ==
    IF term.t = "Integer" /\ term.n >= 0 /\ term.n <= 1200 THEN term.n ELSE 0 - 1

\* terms: <<Priority, Specifier, Name>>, popped from the end
setup_op_decl(terms) ==
    LET name == terms[3]
        spec == terms[2]
        prec == prec_of(terms[1])
    IN  IF name.t \notin {"Atom", "Char"} THEN ErrDecl("InconsistentEntry")
        ELSE IF spec.t \notin {"Atom", "Char"} THEN ErrDecl("InconsistentEntry")
        ELSE IF prec < 0 THEN ErrDecl("InconsistentEntry")
        ELSE to_op_decl(prec, spec.s, name.s)

\* setup_declaration on op/3
SetupOpDecl ==
    /\ od_pc = "read"
    /\ od_res' = setup_op_decl(od_terms)
    /\ od_pc' = "done"
    /\ UNCHANGED <<besides_opdecl, od_terms>>

NextOpDecl == SetupOpDecl

InitOpDecl ==
    /\ Rest_opdecl
    /\ od_pc = "read"
    /\ od_terms \in Priorities \X SpecifierTerms \X Names
    /\ od_res = ErrDecl("")

SpecOpDecl == InitOpDecl /\ [][NextOpDecl]_vars

\* C20: an op/3 declaration is accepted iff its priority is an integer
\* from 0 to 1200, its specifier one of the seven and its name an atom or a
\* character; the operator made is the one declared, and any other
\* declaration gives InconsistentEntry and no operator.
C20_OpDeclAccepted ==
    od_pc = "done" =>
        LET prec == od_terms[1]
            spec == od_terms[2]
            name == od_terms[3]
            valid == /\ prec.t = "Integer" /\ prec.n \in 0..1200
                     /\ spec.t \in {"Atom", "Char"} /\ spec.s \in Specifiers
                     /\ name.t \in {"Atom", "Char"}
        IN  /\ od_res.ok <=> valid
            /\ od_res.ok => od_res = OkDecl(prec.n, spec.s, name.s)
            /\ ~od_res.ok => od_res = ErrDecl("InconsistentEntry")

\* :- op(1200, xfx, a) with a read as a character has been accepted
C20_Witness ==
    /\ od_pc = "done"
    /\ od_terms = <<Integer(1200), AtomC("xfx"), Char("a")>>
    /\ od_res = OkDecl(1200, "xfx", "a")

(***************************************************************************)
(* The configuration builder.                                              *)
(*   mb_pc: "config" until build is called; sc: the StreamConfig value     *)
(*   the caller is making; mb: the MachineBuilder; mb_op: the last call    *)
(*   with sc and mb as they were before it; mb_last: the arguments of the  *)
(*   last with_streams and with_toplevel; wam: the streams and the top     *)
(*   level of the Machine built                                            *)
(***************************************************************************)
MaxInputs == 2

\* the strings given to with_input and with_toplevel
Texts == {[n \in 1..k |-> "a"] : k \in 1..MaxInputs}
DefaultToplevel == <<"t", "o", "p">>
Toplevels == {DefaultToplevel} \cup Texts

\* StreamInputConfigInner; the text is <<>> but for Memory
InputConfig(k, text) == [k |-> k, text |-> text]

StreamConfig(input, output, error) == [input |-> input, output |-> output, error |-> error]
NoStreamConfig == StreamConfig(InputConfig("None", <<>>), "None", "None")

stdio == StreamConfig(InputConfig("StdIn", <<>>), "StdOut", "StdErr")

in_memory == StreamConfig(InputConfig("Empty", <<>>), "Memory", "StdErr")

\* StreamConfig::null binding the error stream to null as well
null_all == StreamConfig(InputConfig("Empty", <<>>), "Null", "Null")

null == StreamConfig(InputConfig("Empty", <<>>), "Null", "StdErr")

\* with_input starting again from in_memory
with_input_in_memory(self, input) ==
    StreamConfig(InputConfig("Memory", input), "Memory", "StdErr")

with_input(self, input) == [self EXCEPT !.input = InputConfig("Memory", input)]

MachineBuilder(streams, top) == [streams |-> streams, toplevel |-> top]

MachineBuilder_default == MachineBuilder(in_memory, DefaultToplevel)

MachineBuilder_new == MachineBuilder_default

with_streams(self, streams) == [self EXCEPT !.streams = streams]

with_toplevel(self, top) == [self EXCEPT !.toplevel = top]

\* a Stream: its kind and, for a memory stream, its initial contents
Stream(kind, text) == [kind |-> kind, text |-> text]

out_stream(config) ==
    CASE config = "Memory" -> Stream("memory", <<>>)
      [] config = "StdOut" -> Stream("stdout", <<>>)
      [] config = "StdErr" -> Stream("stderr", <<>>)
      [] OTHER -> Stream("null", <<>>)

\* the streams and the top level of the Machine that build makes
build(self) ==
    [user_input |-> CASE self.streams.input.k = "Memory" ->
                           Stream("memory", self.streams.input.text)
                      [] self.streams.input.k = "StdIn" -> Stream("stdin", <<>>)
                      [] OTHER -> Stream("null", <<>>),
     user_output |-> out_stream(self.streams.output),
     user_error |-> out_stream(self.streams.error),
     toplevel |-> self.toplevel]

NoMachine ==
    [user_input |-> Stream("none", <<>>), user_output |-> Stream("none", <<>>),
     user_error |-> Stream("none", <<>>), toplevel |-> <<>>]

BuilderOp(op, text) == [op |-> op, text |-> text, sc |-> sc, mb |-> mb]

\* StreamConfig::stdio(), in_memory(), null() or default()
NewStreamConfig ==
    /\ mb_pc = "config"
    /\ \E c \in {<<"stdio", stdio>>, <<"in_memory", in_memory>>, <<"null", null>>,
                 <<"default", in_memory>>} :
          /\ sc' = c[2]
          /\ mb_op' = BuilderOp(c[1], <<>>)
    /\ UNCHANGED <<besides_builder, mb_pc, mb, mb_last, wam>>

WithInput ==
    /\ mb_pc = "config"
    /\ sc # NoStreamConfig
    /\ \E input \in Texts :
          /\ sc' = with_input(sc, input)
          /\ mb_op' = BuilderOp("with_input", input)
    /\ UNCHANGED <<besides_builder, mb_pc, mb, mb_last, wam>>

WithStreams ==
    /\ mb_pc = "config"
    /\ sc # NoStreamConfig
    /\ mb' = with_streams(mb, sc)
    /\ sc' = NoStreamConfig
    /\ mb_op' = BuilderOp("with_streams", <<>>)
    /\ mb_last' = [mb_last EXCEPT !.streams = sc]
    /\ UNCHANGED <<besides_builder, mb_pc, wam>>

WithToplevel ==
    /\ mb_pc = "config"
    /\ \E top \in Toplevels :
          /\ mb' = with_toplevel(mb, top)
          /\ mb_op' = BuilderOp("with_toplevel", top)
          /\ mb_last' = [mb_last EXCEPT !.toplevel = top]
    /\ UNCHANGED <<besides_builder, mb_pc, sc, wam>>

Build ==
    /\ mb_pc = "config"
    /\ wam' = build(mb)
    /\ mb_pc' = "built"
    /\ mb_op' = BuilderOp("build", <<>>)
    /\ UNCHANGED <<besides_builder, sc, mb, mb_last>>

NextBuilder ==
    \/ NewStreamConfig
    \/ WithInput
    \/ WithStreams
    \/ WithToplevel
    \/ Build

InitBuilder ==
    /\ Rest_builder
    /\ mb_pc = "config"
    /\ sc = NoStreamConfig
    /\ mb \in {MachineBuilder_default, MachineBuilder_new}
    /\ mb_op = [op |-> "new", text |-> <<>>, sc |-> NoStreamConfig,
                mb |-> MachineBuilder_default]
    /\ mb_last = MachineBuilder_default
    /\ wam = NoMachine

SpecBuilder == InitBuilder /\ [][NextBuilder]_vars

\* the StreamConfig values that the public functions make
Configs ==
    {stdio, in_memory, null}
    \cup {with_input(c, input) : c \in {stdio, in_memory, null}, input \in Texts}

Bindings == {"stdio", "memory", "null"}

\* the binding of a stream of the machine built from a configuration
Binding(c, stream) ==
    LET kind == build(MachineBuilder(c, DefaultToplevel))[stream].kind
    IN  IF kind \in {"stdin", "stdout", "stderr"} THEN "stdio" ELSE kind

Bindable(stream, binding) == \E c \in Configs : Binding(c, stream) = binding

UserStreams == {"user_input", "user_output", "user_error"}

\* C21 as claimed: each of user_input, user_output and user_error can be
\* given each of the three bindings by a configuration the builder takes.
C21_EveryStreamEveryBinding ==
    /\ mb.streams \in Configs
    /\ mb_pc = "built" =>
          \A stream \in UserStreams, binding \in Bindings : Bindable(stream, binding)

\* C21 as the code has it: the configurations the builder takes are those
\* that stdio, in_memory, null and with_input make; among them user_input
\* and user_output can each be bound to stdio, to memory and to null, and
\* user_error is stderr in all of them and in every machine built.
C21_InputAndOutputEveryBinding ==
    /\ mb.streams \in Configs
    /\ sc # NoStreamConfig => sc \in Configs
    /\ \A stream \in {"user_input", "user_output"}, binding \in Bindings :
          Bindable(stream, binding)
    /\ \A binding \in Bindings : Bindable("user_error", binding) <=> binding = "stdio"
    /\ mb_pc = "built" =>
          /\ wam.user_error = Stream("stderr", <<>>)
          /\ wam.user_input.kind \in {"stdin", "memory", "null"}
          /\ wam.user_output.kind \in {"stdout", "memory", "null"}

\* a machine built with its input in memory, its output null, its error on
\* stderr
C21_Witness ==
    /\ mb_pc = "built"
    /\ wam.user_input.kind = "memory"
    /\ wam.user_output.kind = "null"
    /\ wam.user_error.kind = "stderr"

\* C22: the builder starts with in_memory streams (input empty, output in
\* memory, error on stderr) and the default top level; with_input changes
\* the input of the StreamConfig only, with_streams the streams of the
\* builder only, with_toplevel its top level only, and the machine built
\* has the streams and the top level of the last such calls.
C22_BuilderFields ==
    /\ mb_op.op = "new" =>
          mb = MachineBuilder(StreamConfig(InputConfig("Empty", <<>>), "Memory", "StdErr"),
                              DefaultToplevel)
    /\ mb_op.op = "with_input" =>
          /\ sc.input = InputConfig("Memory", mb_op.text)
          /\ sc.output = mb_op.sc.output
          /\ sc.error = mb_op.sc.error
          /\ mb = mb_op.mb
    /\ mb_op.op = "with_streams" =>
          /\ mb.streams = mb_op.sc
          /\ mb.toplevel = mb_op.mb.toplevel
    /\ mb_op.op = "with_toplevel" =>
          /\ mb.toplevel = mb_op.text
          /\ mb.streams = mb_op.mb.streams
          /\ sc = mb_op.sc
    /\ mb_pc = "built" => wam = build(mb_last)

\* with_input on stdio has kept stdout and stderr, and the machine is built
\* from it with a top level given before
C22_Witness ==
    /\ mb_pc = "built"
    /\ wam.user_input = Stream("memory", <<"a">>)
    /\ wam.user_output.kind = "stdout"
    /\ wam.user_error.kind = "stderr"
    /\ wam.toplevel # DefaultToplevel

(***************************************************************************)
(* The and-stack on its own: frames pushed and resized.                    *)
(*   as_stack: the frames; as_op: the last call, its arguments and the     *)
(*   stack before it                                                       *)
(***************************************************************************)
MaxFrames == 2
MaxPerms == 3

\* Index<usize> for Frame: slot i is perms[i - 1] of the vector
Frame_index(frame, i) == frame.perms[(i - 1) + 1]

\* AndStack::resize: the vector positions len..n-1 are pushed, each with
\* StackCell(fr, i) for its own position i
AndStack_resize(stack, fr, n) ==
    LET len == Len(stack[fr + 1].perms)
    IN  IF len < n
        THEN [stack EXCEPT ![fr + 1].perms =
                 [j \in 1..n |-> IF j <= len THEN @[j] ELSE StackCell(fr, j - 1)]]
        ELSE stack

AndStackOp(op, fr, n) == [op |-> op, fr |-> fr, n |-> n, stack |-> as_stack]

Push ==
    /\ Len(as_stack) < MaxFrames
    /\ \E e \in 0..Len(as_stack), cp \in {TopLevel(0, 1), DirEntry(1)}, n \in 0..MaxPerms :
          /\ as_stack' = AndStack_push(as_stack, Len(as_stack), e, cp, n)
          /\ as_op' = AndStackOp("push", Len(as_stack), n)
    /\ UNCHANGED besides_andstack

Resize ==
    \E fr \in 0..(Len(as_stack) - 1), n \in 0..MaxPerms :
        /\ as_stack' = AndStack_resize(as_stack, fr, n)
        /\ as_op' = AndStackOp("resize", fr, n)
        /\ UNCHANGED besides_andstack

NextAndStack ==
    \/ Push
    \/ Resize

InitAndStack ==
    /\ Rest_andstack
    /\ as_stack = <<>>
    /\ as_op = [op |-> "new", fr |-> 0, n |-> 0, stack |-> <<>>]

SpecAndStack == InitAndStack /\ [][NextAndStack]_vars

\* C23: push appends one frame, at the index that was the length of the
\* stack, with n slots of which slot i holds StackCell(fr, i), and changes
\* no frame that was there.
C23_PushSelfReferences ==
    as_op.op = "push" =>
        LET fr == Len(as_op.stack)
        IN  /\ Len(as_stack) = fr + 1
            /\ Len(as_stack[fr + 1].perms) = as_op.n
            /\ \A i \in 1..as_op.n : Frame_index(as_stack[fr + 1], i) = StackCell(fr, i)
            /\ \A f \in 1..fr : as_stack[f] = as_op.stack[f]

\* a second frame of MaxPerms slots has been pushed
C23_Witness ==
    /\ as_op.op = "push"
    /\ Len(as_stack) = 2
    /\ as_op.n = MaxPerms
    /\ Frame_index(as_stack[2], MaxPerms) = StackCell(1, MaxPerms)

\* C24: after resize(fr, n) the frame has max(old length, n) slots, those
\* it had are unchanged, every slot i added holds StackCell(fr, i), and no
\* other frame has changed.
C24_ResizeSelfReferences ==
    as_op.op = "resize" =>
        LET old == as_op.stack[as_op.fr + 1]
            new == as_stack[as_op.fr + 1]
            len == Len(old.perms)
        IN  /\ Len(new.perms) = IF len < as_op.n THEN as_op.n ELSE len
            /\ \A i \in 1..len : Frame_index(new, i) = Frame_index(old, i)
            /\ \A i \in (len + 1)..Len(new.perms) :
                  Frame_index(new, i) = StackCell(as_op.fr, i)
            /\ \A f \in 1..Len(as_stack) : f # as_op.fr + 1 => as_stack[f] = as_op.stack[f]

(***************************************************************************)
(* query_stepper from every kind of program counter.                       *)
(***************************************************************************)
\* the term-expansion code: none, or the one fact term_expansion.
Expanders == {<<>>, compile_predicate(<<Fact("term_expansion", NoArg)>>)}

\* where a continuation or an alternative can point: the query, the end of
\* the code and past it, term-expansion code and past it, a built-in or
\* call/N under way whose carried pointer is the last instruction
StepperPtrs(len, telen) ==
    {TopLevel(0, 0), TopLevel(0, 1), DirEntry(len), DirEntry(len + 1),
     BuiltInClause(len - 1), CallN(len - 1)}
    \cup {UserTermExpansion(i) : i \in 0..(telen + 1)}

\* query_stepper entered at the first clause of p/1 with its argument in
\* the register, a continuation in CP and at most one choice point, pushed
\* before or after the call of p/1 set B0
InitStepper ==
    /\ program \in FactPrograms
    /\ code = LoadProgram(program).code
    /\ code_dir = LoadProgram(program).dir
    /\ term_expanders \in Expanders
    /\ query = <<CallG("p", VarX)>>
    /\ cached_query = compile_query(query)
    /\ \E c \in Consts, cp \in StepperPtrs(Len(code), Len(term_expanders)) :
          LET m == [MachineState_new EXCEPT !.p = DirEntry(0), !.cp = cp,
                                            !.a1 = Con(c), !.num_of_args = 1]
          IN  ms \in {m} \cup {[PushChoice(m, bp) EXCEPT !.b0 = b0] :
                         bp \in StepperPtrs(Len(code), Len(term_expanders)),
                         b0 \in 0..1}
    /\ pc = "qs_exec"
    /\ session = "submit"
    /\ alloc_locs = AllocOf(query)
    /\ heap_locs = EmptyMap
    /\ result = EvalSession("None", "")
    /\ answers = <<>>
    /\ trace = NoTrace
    /\ InitTopLevel({Atom("true")})
    /\ Idle_library

NextStepper ==
    \/ ExecuteInstr
    \/ Backtrack
    \/ NoBacktrack
    \/ StepperMatch

SpecStepper == InitStepper /\ [][NextStepper]_vars

\* the program counter keeps query_stepper in its loop
InCode(p) ==
    \/ p.k = "DirEntry" /\ p.p < Len(code)
    \/ p.k = "UserTermExpansion" /\ p.p < Len(term_expanders)
    \/ p.k \in {"BuiltInClause", "CallN"}

\* the program counter has left the code
LeftCode(p) ==
    \/ p.k = "TopLevel"
    \/ p.k = "DirEntry" /\ p.p >= Len(code)

\* C25: after the instruction and any backtrack, query_stepper goes on to
\* the next instruction when PC is a DirEntry index below the code length,
\* a term-expansion index below the expander length or a built-in/CallN
\* pointer; it returns when PC is a TopLevel pointer or a DirEntry index at
\* or past the code length; at an out-of-range term-expansion pointer it
\* sets the fail flag and goes on.
C25_StepperLoop ==
    [][pc = "qs_match" =>
          /\ InCode(ms.p) => pc' = "qs_exec" /\ ms' = ms
          /\ LeftCode(ms.p) => pc' = "rq_post" /\ ms' = ms
          /\ (ms.p.k = "UserTermExpansion" /\ ms.p.p >= Len(term_expanders)) =>
                pc' = "qs_exec" /\ ms' = [ms EXCEPT !.fail = TRUE]]_vars

\* an out-of-range term-expansion pointer reached by an instruction: the
\* fail flag is set and the loop is at its next instruction
C25_Witness ==
    /\ pc = "qs_exec"
    /\ trace.last = "instr"
    /\ ms.p.k = "UserTermExpansion"
    /\ ms.p.p >= Len(term_expanders)
    /\ ms.fail

\* C26: backtrack with a non-empty or-stack sets B0 and PC from the top
\* choice point and changes nothing else, B included; it leaves the fail
\* flag clear unless that BP is a TopLevel pointer with offset 0, and then
\* set; with an empty or-stack it only sets PC to TopLevel(0, 0) and the
\* fail flag stays set.
C26_BacktrackRegisters ==
    [][(pc = "qs_fail" /\ failed(ms)) =>
          IF ms.b > 0
          THEN LET top == ms.or_stack[ms.b]
               IN  /\ ms' = [ms EXCEPT !.b0 = top.b0, !.p = top.bp,
                                       !.fail = ms'.fail]
                   /\ ms'.b = ms.b
                   /\ ms'.fail = (top.bp.k = "TopLevel" /\ top.bp.p = 0)
          ELSE /\ ms' = [ms EXCEPT !.p = TopLevel(0, 0)]
               /\ ms'.fail]_vars

\* a backtrack to a choice point whose alternative is TopLevel(0, 0) and
\* whose saved B0 is not the B0 of the failure: the fail flag is still set
C26_Witness ==
    /\ pc = "qs_match"
    /\ trace.last = "backtrack"
    /\ trace.pre.b > 0
    /\ trace.pre.or_stack[trace.pre.b].bp = TopLevel(0, 0)
    /\ trace.pre.or_stack[trace.pre.b].b0 # trace.pre.b0
    /\ ms.b0 = trace.pre.or_stack[trace.pre.b].b0
    /\ ms.fail

(***************************************************************************)
(* continue_query on an or-stack that is empty or whose top choice point   *)
(* has the start of the query as its alternative.                          *)
(***************************************************************************)
\* a query p(c) that gave a solution and left one choice point whose
\* alternative is the start of the query
InitLeftover ==
    /\ program \in FactPrograms
    /\ code = LoadProgram(program).code
    /\ code_dir = LoadProgram(program).dir
    /\ term_expanders = <<>>
    /\ \E c \in Consts, cn \in 0..1 :
          /\ query = <<CallG("p", c)>>
          /\ ms = PushChoice([MachineState_new EXCEPT !.a1 = Con(c)],
                             TopLevel(cn, 0))
    /\ cached_query = compile_query(query)
    /\ pc = "idle"
    /\ session = "submit"
    /\ alloc_locs = AllocOf(query)
    /\ heap_locs = EmptyMap
    /\ result = EvalSession("InitialQuerySuccess", "")
    /\ answers = <<"true">>
    /\ trace = NoTrace
    /\ InitTopLevel({Atom("true")})
    /\ Idle_library

InitContinue == Init \/ InitLeftover

SpecContinue == InitContinue /\ [][Next]_vars

\* continue_query returns at once: no choice point, or the start of the
\* query as the alternative of the top one
ReturnsAtOnce(m) ==
    \/ or_stack_is_empty(m)
    \/ m.or_stack[m.b].bp.k = "TopLevel" /\ m.or_stack[m.b].bp.p = 0

\* C27: continue_query called with an empty or-stack, or with a top choice
\* point whose BP is a TopLevel pointer with offset 0, returns QueryFailure
\* without executing an instruction and leaves heap, and-stack, or-stack,
\* trail and code as they are; with an empty or-stack it leaves the whole
\* machine as it is, so that every later continue_query fails again.
C27_ContinueFailsAtOnce ==
    [][(pc = "idle" /\ result.kind # "None" /\ session' = "continue"
        /\ ReturnsAtOnce(ms)) =>
          /\ result' = EvalSession("QueryFailure", "")
          /\ pc' = "idle"
          /\ ms'.heap = ms.heap
          /\ ms'.trail = ms.trail
          /\ ms'.and_stack = ms.and_stack
          /\ ms'.or_stack = ms.or_stack
          /\ ReturnsAtOnce(ms')
          /\ or_stack_is_empty(ms) => ms' = ms
          /\ UNCHANGED <<loaded, cached_query, answers>>]_vars

\* continue_query has failed on an empty or-stack, the heap of the
\* solutions given before still in place
C27_Witness ==
    /\ pc = "idle"
    /\ trace.last = "continue"
    /\ or_stack_is_empty(trace.cont)
    /\ result.kind = "QueryFailure"
    /\ answers # <<>>
    /\ ms.heap # <<>>

(***************************************************************************)
(* add_batched_code on index cells.                                        *)
(*   bc_cells: the index cells (the Rc<RefCell<(IndexPtr, ClauseName)>> of *)
(*   CodeIndex), a cell named by its position; bc_dir: the master code     *)
(*   directory, key to cell (0: no entry); bc_code: the code vector;       *)
(*   bc_handles: the CodeIndex clones get_code_index gave out, as          *)
(*   <<key, cell>>; bc_n: the calls of add_batched_code so far; bc_call:   *)
(*   the last operation with the state before it.                          *)
(*   A code address is the position of the instruction in bc_code counted  *)
(*   from 1, so that ptr 0 stays IndexPtr::Undefined.                      *)
(***************************************************************************)
MaxLoads == 2

\* the order the keys of a batch are gone through in
KeyOrder == <<<<"p", 1>>, <<"q", 2>>, <<"is", 2>>>>

\* an entry of a batch directory: none, a cell of the batch's own, or the
\* very cell the master directory holds for the key
BatchEntry(kind, ptr, module) == [kind |-> kind, ptr |-> ptr, module |-> module]
NoEntry == BatchEntry("none", 0, "")

\* the batches compiled when the code vector has len instructions: one or
\* two instructions, up to MaxBatch keys of one module, each undefined or at
\* the first instruction of the batch
CellBatches(len, dir) ==
    {b \in [code : {<<len + 1>>, <<len + 1, len + 2>>},
            dir : [Keys -> {NoEntry}
                           \cup {BatchEntry("own", ptr, m) :
                                    ptr \in {0, len + 1}, m \in {"user", "m1"}}
                           \cup {BatchEntry("shared", 0, "")}]] :
        /\ \E k \in Keys : b.dir[k] # NoEntry
        /\ Cardinality({k \in Keys : b.dir[k] # NoEntry}) <= MaxBatch
        /\ \A k \in Keys : b.dir[k].kind = "shared" => dir[k] # 0
        /\ \A k, l \in Keys :
              b.dir[k].kind = "own" /\ b.dir[l].kind = "own"
                 => b.dir[k].module = b.dir[l].module}

\* the index a directory of cells gives for each key
Resolve(cells, dir) == [k \in Keys |-> IF dir[k] = 0 THEN NoIdx ELSE cells[dir[k]]]

\* the index each entry of the batch directory holds
BatchIdx(cells, dir, batch) ==
    [k \in Keys |->
        CASE batch.dir[k].kind = "none" -> NoIdx
          [] batch.dir[k].kind = "shared" -> cells[dir[k]]
          [] OTHER -> Idx(batch.dir[k].ptr, batch.dir[k].module)]

\* the second loop putting a cell of the batch in the place of the master's
update_master_index_replacing(cells, dir, batch, i) ==
    LET k == KeyOrder[i]
        e == batch.dir[k]
    IN  IF e.kind = "own"
        THEN [cells |-> Append(cells, Idx(e.ptr, e.module)),
              dir |-> [dir EXCEPT ![k] = Len(cells) + 1]]
        ELSE [cells |-> cells, dir |-> dir]

\* one round of the second loop of add_batched_code: set_code_index! on the
\* master's cell unless the batch holds that very cell, an insert of the
\* batch's cell if the master has no entry
update_master_index(cells, dir, batch, i) ==
    LET k == KeyOrder[i]
        e == batch.dir[k]
    IN  IF e.kind = "none" THEN [cells |-> cells, dir |-> dir]
        ELSE IF dir[k] # 0
             THEN IF e.kind = "shared" THEN [cells |-> cells, dir |-> dir]
                  ELSE [cells |-> [cells EXCEPT ![dir[k]] = Idx(e.ptr, e.module)],
                        dir |-> dir]
             ELSE [cells |-> Append(cells, Idx(e.ptr, e.module)),
                   dir |-> [dir EXCEPT ![k] = Len(cells) + 1]]

RECURSIVE update_master(_, _, _, _)
update_master(cells, dir, batch, i) ==
    IF i > Len(KeyOrder) THEN [cells |-> cells, dir |-> dir]
    ELSE LET r == update_master_index(cells, dir, batch, i)
         IN  update_master(r.cells, r.dir, batch, i + 1)

\* the keys of the batch at which the first loop finds nothing wrong
Passing(cells, dir, batch) ==
    [code |-> batch.code,
     dir |-> [k \in Keys |->
                 IF batch_error(Resolve(cells, dir), k,
                                BatchIdx(cells, dir, batch)[k]) = "Ok"
                 THEN batch.dir[k] ELSE NoEntry]]

\* add_batched_code updating the master directory as it goes through the
\* batch, up to the key at which it finds an error
Machine_add_batched_code_as_it_goes(cells, dir, vec, batch) ==
    LET view == Resolve(cells, dir)
        idxs == BatchIdx(cells, dir, batch)
        errs == {batch_error(view, k, idxs[k]) : k \in {l \in Keys : idxs[l] # NoIdx}}
                \ {"Ok"}
        done == update_master(cells, dir, Passing(cells, dir, batch), 1)
    IN  IF errs # {}
        THEN {[res |-> e, cells |-> done.cells, dir |-> done.dir, code |-> vec] :
                 e \in errs}
        ELSE {[res |-> "Ok", cells |-> done.cells, dir |-> done.dir,
               code |-> vec \o batch.code]}

\* the outcomes of add_batched_code: the first loop returns the error of
\* whichever failing key the hash map yields first; without one the second
\* loop updates the master directory and the code is appended
Machine_add_batched_code(cells, dir, vec, batch) ==
    LET view == Resolve(cells, dir)
        idxs == BatchIdx(cells, dir, batch)
        errs == {batch_error(view, k, idxs[k]) : k \in {l \in Keys : idxs[l] # NoIdx}}
                \ {"Ok"}
        done == update_master(cells, dir, batch, 1)
    IN  IF errs # {}
        THEN {[res |-> e, cells |-> cells, dir |-> dir, code |-> vec] : e \in errs}
        ELSE {[res |-> "Ok", cells |-> done.cells, dir |-> done.dir,
               code |-> vec \o batch.code]}

NoBatch == [code |-> <<>>, dir |-> [k \in Keys |-> NoEntry]]

BatchCall(op, batch, res) ==
    [op |-> op, batch |-> batch, res |-> res,
     cells |-> bc_cells, dir |-> bc_dir, code |-> bc_code, handles |-> bc_handles]

AddBatchedCodeCells ==
    /\ bc_n < MaxLoads
    /\ \E batch \in CellBatches(Len(bc_code), bc_dir) :
          \E r \in Machine_add_batched_code(bc_cells, bc_dir, bc_code, batch) :
              /\ bc_cells' = r.cells
              /\ bc_dir' = r.dir
              /\ bc_code' = r.code
              /\ bc_call' = BatchCall("add_batched_code", batch, r.res)
    /\ bc_n' = bc_n + 1
    /\ UNCHANGED <<besides_indexcells, bc_handles>>

\* get_code_index(key, user): a clone of the CodeIndex, the same cell
GetHandle ==
    \E k \in Keys :
        /\ bc_dir[k] # 0
        /\ <<k, bc_dir[k]>> \notin bc_handles
        /\ bc_handles' = bc_handles \cup {<<k, bc_dir[k]>>}
        /\ bc_call' = BatchCall("get_code_index", NoBatch, "")
        /\ UNCHANGED <<besides_indexcells, bc_cells, bc_dir, bc_code, bc_n>>

NextBatch ==
    \/ AddBatchedCodeCells
    \/ GetHandle

InitBatch ==
    /\ Rest_indexcells
    /\ bc_cells = <<>>
    /\ bc_dir = [k \in Keys |-> 0]
    /\ bc_code = <<>>
    /\ bc_handles = {}
    /\ bc_n = 0
    /\ bc_call = [op |-> "new", batch |-> NoBatch, res |-> "", cells |-> <<>>,
                  dir |-> [k \in Keys |-> 0], code |-> <<>>, handles |-> {}]

SpecBatch == InitBatch /\ [][NextBatch]_vars

\* add_batched_code has just returned
Added == bc_call.op = "add_batched_code"

\* the master directory before the call, and the indices of the batch
MasterBefore == Resolve(bc_call.cells, bc_call.dir)
Master == Resolve(bc_cells, bc_dir)
BatchBefore == BatchIdx(bc_call.cells, bc_call.dir, bc_call.batch)
InBatch(k) == bc_call.batch.dir[k] # NoEntry

\* C28: add_batched_code is all-or-nothing: when it returns Err, the master
\* code directory (its entries and the index cells behind them) and the code
\* vector are exactly as before the call.
C28_ErrChangesNothing ==
    (Added /\ bc_call.res # "Ok") =>
        /\ bc_dir = bc_call.dir
        /\ bc_cells = bc_call.cells
        /\ bc_code = bc_call.code

\* a rejected batch with a key at which nothing is wrong and whose index is
\* not the one the master directory has
C28_Witness ==
    /\ Added
    /\ bc_call.res # "Ok"
    /\ \E k \in Keys :
          /\ Passing(bc_call.cells, bc_call.dir, bc_call.batch).dir[k].kind = "own"
          /\ BatchBefore[k] # MasterBefore[k]

\* C29: after add_batched_code returned Ok every key of the batch resolves
\* in the master directory to the address and module of the batch; a key
\* that had an entry keeps its index cell, so every CodeIndex given out for
\* it before the call reads the new index; the instructions of the batch
\* follow the code there was, which is unchanged, and every address of the
\* directory lies in the code vector.
C29_OkUpdatesInPlace ==
    (Added /\ bc_call.res = "Ok") =>
        /\ \A k \in Keys : InBatch(k) => Master[k] = BatchBefore[k]
        /\ \A k \in Keys : bc_call.dir[k] # 0 => bc_dir[k] = bc_call.dir[k]
        /\ \A h \in bc_call.handles :
              InBatch(h[1]) => bc_cells[h[2]] = BatchBefore[h[1]]
        /\ \A k \in Keys : ~InBatch(k) => Master[k] = MasterBefore[k]
        /\ bc_code = bc_call.code \o bc_call.batch.code
        /\ \A i \in 1..Len(bc_call.code) : bc_code[i] = bc_call.code[i]
        /\ \A c \in 1..Len(bc_cells) : bc_cells[c].ptr <= Len(bc_code)

\* a key defined before the call, a CodeIndex given out for it, and a batch
\* that defines the key anew in a cell of its own: the CodeIndex reads the
\* address in the code of the batch
C29_Witness ==
    /\ Added
    /\ bc_call.res = "Ok"
    /\ \E h \in bc_call.handles :
          /\ bc_call.batch.dir[h[1]].kind = "own"
          /\ bc_call.cells[h[2]].ptr > 0
          /\ bc_cells[h[2]].ptr > Len(bc_call.code)

\* C30: a key that is defined, Index(p), in the master code directory before
\* add_batched_code is defined after it, whatever the batch holds for it.
C30_DefinedStaysDefined ==
    Added =>
        \A k \in Keys :
            (MasterBefore[k] # NoIdx /\ ~is_undefined(MasterBefore[k]))
               => (Master[k] # NoIdx /\ ~is_undefined(Master[k]))

(***************************************************************************)
(* remove_module (modules.rs) on the code directory of the user.           *)
(***************************************************************************)
\* the fixities an operator of this arity can have
FixitiesOf(arity) ==
    IF arity = 1 THEN {"Pre", "Post"} ELSE IF arity = 2 THEN {"In"} ELSE {}

\* one round of the loop of remove_module taking the entry whoever owns it
remove_export_any_owner(user, mod_name, module, key) ==
    IF user.code_dir[key] # NoIdx
    THEN [code_dir |-> [user.code_dir EXCEPT ![key] = NoIdx],
          op_dir |-> [o \in OpKeys |->
                         IF o[1] = key[1] /\ o[2] \in FixitiesOf(key[2])
                         THEN "" ELSE user.op_dir[o]]]
    ELSE user

\* one round of the loop of remove_module: the export (name, arity)
remove_export(user, mod_name, module, key) ==
    LET idx == IF mod_name \in {"user", "builtin"} THEN user.code_dir[key] ELSE NoIdx
    IN  IF idx # NoIdx /\ idx.module = module.name
        THEN [code_dir |-> [user.code_dir EXCEPT ![key] = NoIdx],
              op_dir |-> [o \in OpKeys |->
                             IF /\ o[1] = key[1]
                                /\ o[2] \in FixitiesOf(key[2])
                                /\ user.op_dir[o] = module.name
                             THEN "" ELSE user.op_dir[o]]]
        ELSE user

RECURSIVE remove_module_from(_, _, _, _)
remove_module_from(user, mod_name, module, exports) ==
    IF exports = <<>> THEN user
    ELSE remove_module_from(remove_export(user, mod_name, module, Head(exports)),
                            mod_name, module, Tail(exports))

remove_module(user, mod_name, module) ==
    remove_module_from(user, mod_name, module, module.exports)

\* Machine::remove_module
RemoveModule ==
    \E m \in DOMAIN cd_mods :
        LET r == remove_module(CDUser, "user", cd_mods[m])
        IN  /\ cd_code' = r.code_dir
            /\ cd_ops' = r.op_dir
            /\ cd_call' = Call("remove_module", m, <<"", 0>>, EmptyDir, <<>>, "", NoIdx)
            /\ cd_before' = CDUser
            /\ UNCHANGED <<besides_directory, cd_mods>>

NextModules ==
    \/ AddBatchedCode
    \/ UseModule
    \/ RemoveModule

SpecModules == InitDirectory /\ [][NextModules]_vars

\* the module of the last call
LastModule == cd_mods[cd_call.module]

\* C31: remove_module(user, M) takes from the code directory exactly the
\* keys M exports whose index M owns; a key M exports that another module
\* owns and a key M does not export stay as they are; an operator is taken
\* only if M owns it.
C31_RemovesOwnExports ==
    cd_call.op = "remove_module" =>
        /\ \A k \in Keys :
              IF /\ InSeq(k, LastModule.exports)
                 /\ cd_before.code_dir[k] # NoIdx
                 /\ cd_before.code_dir[k].module = LastModule.name
              THEN cd_code[k] = NoIdx
              ELSE cd_code[k] = cd_before.code_dir[k]
        /\ \A o \in OpKeys :
              cd_ops[o] # cd_before.op_dir[o]
                 => cd_before.op_dir[o] = LastModule.name /\ cd_ops[o] = ""

\* a removal of a module that exports two keys, one it owned in the
\* directory, which is gone, and one another module owned, which is there
C31_Witness ==
    /\ cd_call.op = "remove_module"
    /\ \E k, l \in Keys :
          /\ InSeq(k, LastModule.exports)
          /\ InSeq(l, LastModule.exports)
          /\ cd_before.code_dir[k] # NoIdx
          /\ cd_before.code_dir[k].module = LastModule.name
          /\ cd_code[k] = NoIdx
          /\ cd_before.code_dir[l] # NoIdx
          /\ cd_before.code_dir[l].module \notin {LastModule.name, "user"}
          /\ cd_code[l] = cd_before.code_dir[l]

\* C32: remove_module(user, M) right after a use_module(user, M) that
\* returned Ok leaves no code-directory entry and no operator of those the
\* use_module took from M.
C32_RemovalUndoesImport ==
    [][(/\ cd_call.op = "use_module"
        /\ cd_call.res = "Ok"
        /\ cd_call'.op = "remove_module"
        /\ cd_call'.module = cd_call.module) =>
          /\ \A k \in Keys :
                (InSeq(k, LastModule.exports) /\ LastModule.code_dir[k] # NoIdx)
                   => cd_code'[k] = NoIdx
          /\ \A o \in OpKeys :
                (/\ \E k \in Keys : /\ InSeq(k, LastModule.exports)
                                    /\ o[1] = k[1]
                                    /\ o[2] \in FixitiesOf(k[2])
                 /\ LastModule.op_dir[o] # "")
                   => cd_ops'[o] = ""]_vars

\* C33: a use_module or use_qualified_module that returned
\* ModuleDoesNotContainExport has left the code directory and the operator
\* directory of the importer as they were before the call.
C33_FailedImportChangesNothing ==
    (/\ cd_call.op \in {"use_module", "use_qualified_module"}
     /\ cd_call.res = "ModuleDoesNotContainExport") =>
        /\ cd_code = cd_before.code_dir
        /\ cd_ops = cd_before.op_dir

(***************************************************************************)
(* CompositeIndices::get_code_index (toplevel.rs).                         *)
(*   ci_cells: the index cells, a cell named by its position; ci_local and *)
(*   ci_static: the local and the static code directory, key to cell (0:   *)
(*   no entry); ci_in_module: compiling inside a module; ci_first: the     *)
(*   cell the first get_code_index of a key returned; ci_n: the calls so   *)
(*   far; ci_call: the last operation with the state before it.            *)
(***************************************************************************)
MaxLookups == 3

NoDir == [k \in Keys |-> 0]

\* CodeIndex::default()
CodeIndex_default == Idx(0, "")

\* composite_indices!: no static directory inside a module
static_code_dir(in_module, static) == IF in_module THEN NoDir ELSE static

\* get_code_index handing out a cell of its own with the index the static
\* directory has
CompositeIndices_get_code_index_copying(cells, local, static, key) ==
    IF local[key] # 0
    THEN [cells |-> cells, local |-> local, ret |-> local[key]]
    ELSE IF static[key] # 0
         THEN [cells |-> Append(cells, cells[static[key]]),
               local |-> [local EXCEPT ![key] = Len(cells) + 1],
               ret |-> Len(cells) + 1]
         ELSE [cells |-> Append(cells, CodeIndex_default),
               local |-> [local EXCEPT ![key] = Len(cells) + 1],
               ret |-> Len(cells) + 1]

\* the cell returned, with the cells and the local directory afterwards
CompositeIndices_get_code_index(cells, local, static, key) ==
    LET idx_opt == IF local[key] # 0 THEN local[key] ELSE static[key]
    IN  IF idx_opt # 0
        THEN [cells |-> cells,
              local |-> [local EXCEPT ![key] = idx_opt],
              ret |-> idx_opt]
        ELSE [cells |-> Append(cells, CodeIndex_default),
              local |-> [local EXCEPT ![key] = Len(cells) + 1],
              ret |-> Len(cells) + 1]

\* set_code_index! on a cell
set_code_index(cells, cell, ptr, module) == [cells EXCEPT ![cell] = Idx(ptr, module)]

CompositeCall(op, key, ret) ==
    [op |-> op, key |-> key, ret |-> ret, cells |-> ci_cells, local |-> ci_local]

CompositeGetCodeIndex ==
    /\ ci_n < MaxLookups
    /\ \E key \in PlainKeys :
          LET r == CompositeIndices_get_code_index(
                       ci_cells, ci_local,
                       static_code_dir(ci_in_module, ci_static), key)
          IN  /\ ci_cells' = r.cells
              /\ ci_local' = r.local
              /\ ci_first' = IF ci_first[key] = 0
                             THEN [ci_first EXCEPT ![key] = r.ret] ELSE ci_first
              /\ ci_call' = CompositeCall("get_code_index", key, r.ret)
    /\ ci_n' = ci_n + 1
    /\ UNCHANGED <<besides_composite, ci_static, ci_in_module>>

\* the predicate is defined: its address is written into the cell the local
\* directory holds for it
DefinePredicate ==
    /\ ci_n < MaxLookups
    /\ \E key \in PlainKeys, ptr \in 1..2 :
          /\ ci_local[key] # 0
          /\ ci_cells' = set_code_index(ci_cells, ci_local[key], ptr,
                                        IF ci_in_module THEN "m1" ELSE "user")
          /\ ci_call' = CompositeCall("define", key, ci_local[key])
    /\ ci_n' = ci_n + 1
    /\ UNCHANGED <<besides_composite, ci_local, ci_static, ci_in_module, ci_first>>

NextComposite ==
    \/ CompositeGetCodeIndex
    \/ DefinePredicate

\* a static directory with any of the keys, defined or not, and nothing
\* compiled yet
InitComposite ==
    /\ Rest_composite
    /\ \E held \in SUBSET PlainKeys, ptrs \in [PlainKeys -> 0..1] :
          LET ks == {i \in 1..Len(KeyOrder) : KeyOrder[i] \in held}
              cell(k) == Cardinality({i \in ks : \E j \in 1..Len(KeyOrder) :
                                         KeyOrder[j] = k /\ i <= j})
          IN  /\ ci_static = [k \in Keys |-> IF k \in held THEN cell(k) ELSE 0]
              /\ ci_cells = [c \in 1..Cardinality(held) |->
                               Idx(ptrs[CHOOSE k \in held : cell(k) = c], "user")]
    /\ ci_local = NoDir
    /\ ci_in_module \in BOOLEAN
    /\ ci_first = NoDir
    /\ ci_n = 0
    /\ ci_call = [op |-> "new", key |-> <<"", 0>>, ret |-> 0, cells |-> <<>>,
                  local |-> NoDir]

SpecComposite == InitComposite /\ [][NextComposite]_vars

\* C34: get_code_index(name, arity) returns the cell of the local directory
\* if it has one, else the cell of the static directory if there is one and
\* the compilation is not inside a module, else a new cell holding
\* Undefined; the local directory then holds the returned cell under the
\* key and is otherwise unchanged, so every call for a key returns the cell
\* the first call returned, and the index a later definition writes is
\* read through that cell.
C34_SharedIndex ==
    /\ ci_call.op = "get_code_index" =>
          LET k == ci_call.key
          IN  /\ IF ci_call.local[k] # 0 THEN ci_call.ret = ci_call.local[k]
                 ELSE IF ~ci_in_module /\ ci_static[k] # 0
                      THEN ci_call.ret = ci_static[k]
                      ELSE /\ ci_call.ret = Len(ci_call.cells) + 1
                           /\ is_undefined(ci_cells[ci_call.ret])
              /\ ci_local = [ci_call.local EXCEPT ![k] = ci_call.ret]
              /\ ci_call.ret = ci_first[k]
              /\ \A c \in 1..Len(ci_call.cells) : ci_cells[c] = ci_call.cells[c]
    /\ ci_call.op = "define" =>
          /\ ci_first[ci_call.key] = ci_call.ret
          /\ ~is_undefined(ci_cells[ci_first[ci_call.key]])

\* a predicate called before it is defined: the first call made a new
\* Undefined cell, the definition filled it in, and a later call returns
\* the same cell, now defined
C34_Witness ==
    /\ ci_call.op = "get_code_index"
    /\ ci_call.ret = ci_first[ci_call.key]
    /\ ci_call.local[ci_call.key] = ci_call.ret
    /\ ci_static[ci_call.key] # ci_call.ret
    /\ ~is_undefined(ci_cells[ci_call.ret])

(***************************************************************************)
(* merge_clauses on queues of every kind of entry.                         *)
(*   mc_tls: the queue; mc_call: the queue the last call was given and     *)
(*   what it returned.                                                     *)
(***************************************************************************)
MaxQueue == 3

\* the entries of a queue: facts and a rule of p/1 and q/1, a fact of p/0,
\* a predicate of two clauses of p/1, a query and a declaration
QueueEntries ==
    {TopLevelOf(Fact(n, a)) : n \in {"p", "q"}, a \in {"c1", "c2"}}
    \cup {TopLevelOf(Fact("p", NoArg)),
          TopLevelOf(Clause("p", "c3", <<CallG("q", "c1")>>)),
          [kind |-> "Predicate", name |-> "p", arity |-> 1,
           clauses |-> <<Fact("p", "c2"), Fact("p", "c1")>>],
          [kind |-> "Query", name |-> "", arity |-> 0, clauses |-> <<>>],
          [kind |-> "Declaration", name |-> "", arity |-> 0, clauses |-> <<>>]}

Queues == UNION {[1..n -> QueueEntries] : n \in 0..MaxQueue}

MergeClauses ==
    /\ mc_call.res # "InconsistentEntry"
    /\ LET r == merge_clauses(mc_tls)
       IN  /\ mc_tls' = r.tls
           /\ mc_call' = [tls |-> mc_tls,
                          res |-> IF ~r.ok THEN "InconsistentEntry"
                                  ELSE IF r.pred # <<>> THEN "Predicate"
                                  ELSE Head(mc_tls).kind,
                          pred |-> r.pred]
    /\ UNCHANGED besides_merge

InitMerge ==
    /\ Rest_merge
    /\ mc_tls \in Queues
    /\ mc_call = [tls |-> <<>>, res |-> "none", pred |-> <<>>]

SpecMerge == InitMerge /\ [][MergeClauses]_vars

IsClauses(tl) == tl.kind \in {"Fact", "Rule", "Predicate"}

RECURSIVE ClausesOf(_)
\* the clauses of a run of entries, in the order of the entries
ClausesOf(tls) ==
    IF tls = <<>> THEN <<>> ELSE Head(tls).clauses \o ClausesOf(Tail(tls))

\* the entries the last call took from the front of its queue
Taken == SubSeq(mc_call.tls, 1, Len(mc_call.tls) - Len(mc_tls))

\* C35: merge_clauses takes from the front of the queue the longest run of
\* Fact, Rule and Predicate entries of one name and arity and returns their
\* clauses in order as one Predicate, leaving the rest of the queue as it
\* was; a Query is returned only if it is the only entry; a Query with
\* other entries and an empty queue give InconsistentEntry.
C35_MergesLongestRun ==
    LET old == mc_call.tls
        n == Len(old) - Len(mc_tls)
    IN  /\ mc_call.res = "Predicate" =>
              /\ n > 0
              /\ mc_tls = SubSeq(old, n + 1, Len(old))
              /\ \A i \in 1..n :
                    /\ IsClauses(old[i])
                    /\ old[i].name = old[1].name
                    /\ old[i].arity = old[1].arity
              /\ mc_call.pred = ClausesOf(Taken)
              /\ n < Len(old) =>
                    ~(/\ IsClauses(old[n + 1])
                      /\ old[n + 1].name = old[1].name
                      /\ old[n + 1].arity = old[1].arity)
              /\ n < Len(old) => old[n + 1].kind # "Query"
        /\ mc_call.res = "Query" => Len(old) = 1 /\ old[1].kind = "Query"
        /\ mc_call.res # "none" =>
              ((old = <<>>
                \/ (Len(old) > 1 /\ old[1].kind = "Query")
                \/ (/\ IsClauses(old[1])
                    /\ \E j \in 2..Len(old) :
                          /\ old[j].kind = "Query"
                          /\ \A i \in 1..(j - 1) :
                                /\ IsClauses(old[i])
                                /\ old[i].name = old[1].name
                                /\ old[i].arity = old[1].arity))
               <=> mc_call.res = "InconsistentEntry")

\* a fact, a predicate of two clauses and a rule of p/1 merged into one
\* predicate of four clauses, and an entry of another predicate left at the
\* front of the queue
C35_Witness ==
    /\ mc_call.res = "Predicate"
    /\ Len(mc_call.tls) - Len(mc_tls) >= 2
    /\ Len(mc_call.pred) > Len(mc_call.tls) - Len(mc_tls)
    /\ mc_call.pred[1] # mc_call.pred[2]
    /\ mc_tls # <<>>
    /\ IsClauses(mc_tls[1])

(***************************************************************************)
(* TopLevelBatchWorker::consume (toplevel.rs).                             *)
(*   bw_all: the terms of the stream as top-level entries; bw_input: those *)
(*   not read yet; bw_results: the predicates pushed to self.results;      *)
(*   bw_ret: what the last consume returned.                               *)
(***************************************************************************)
\* process_result: the collected clauses become one more result
process_result(results, preds) == Append(results, preds)

RECURSIVE consume_flushing_for_clauses(_, _, _)
\* the loop of consume flushing only when the term read is a clause
consume_flushing_for_clauses(input, preds, results) ==
    IF input = <<>>
    THEN [ret |-> "None", input |-> input,
          results |-> IF preds # <<>> THEN process_result(results, preds)
                      ELSE results]
    ELSE LET tl == Head(input)
             flush == ~is_consistent(tl, preds) /\ IsClauses(tl)
             rs == IF flush THEN process_result(results, preds) ELSE results
             ps == IF flush THEN <<>> ELSE preds
         IN  CASE IsClauses(tl) ->
                    consume_flushing_for_clauses(Tail(input), ps \o tl.clauses, rs)
               [] tl.kind = "Declaration" ->
                    [ret |-> "Declaration", input |-> Tail(input), results |-> rs]
               [] OTHER ->
                    [ret |-> "NamelessEntry", input |-> Tail(input), results |-> rs]

RECURSIVE consume_loop(_, _, _)
\* the loop of consume and what follows it: the terms not read, the results
\* and the value returned
consume_loop(input, preds, results) ==
    IF input = <<>>
    THEN [ret |-> "None", input |-> input,
          results |-> IF preds # <<>> THEN process_result(results, preds)
                      ELSE results]
    ELSE LET tl == Head(input)
             flush == ~is_consistent(tl, preds)
             rs == IF flush THEN process_result(results, preds) ELSE results
             ps == IF flush THEN <<>> ELSE preds
         IN  CASE IsClauses(tl) ->
                    consume_loop(Tail(input), ps \o tl.clauses, rs)
               [] tl.kind = "Declaration" ->
                    [ret |-> "Declaration", input |-> Tail(input), results |-> rs]
               [] OTHER ->
                    [ret |-> "NamelessEntry", input |-> Tail(input), results |-> rs]

consume(input, results) == consume_loop(input, <<>>, results)

\* consume, called again after each declaration it returned
Consume ==
    /\ bw_ret \in {"", "Declaration"}
    /\ LET r == consume(bw_input, bw_results)
       IN  /\ bw_input' = r.input
           /\ bw_results' = r.results
           /\ bw_ret' = r.ret
    /\ UNCHANGED <<besides_batchworker, bw_all>>

InitBatchWorker ==
    /\ Rest_batchworker
    /\ bw_all \in Queues
    /\ bw_input = bw_all
    /\ bw_results = <<>>
    /\ bw_ret = ""

SpecBatchWorker == InitBatchWorker /\ [][Consume]_vars

\* the terms read so far
Read == SubSeq(bw_all, 1, Len(bw_all) - Len(bw_input))

RECURSIVE Flatten(_)
Flatten(seqs) == IF seqs = <<>> THEN <<>> ELSE Head(seqs) \o Flatten(Tail(seqs))

RECURSIVE ClauseEntries(_)
\* the terms that are clauses, in their order
ClauseEntries(tls) ==
    IF tls = <<>> THEN <<>>
    ELSE (IF IsClauses(Head(tls)) THEN <<Head(tls)>> ELSE <<>>)
         \o ClauseEntries(Tail(tls))

\* the term at i is a clause and starts a group: no clause of its name and
\* arity is right before it
StartsGroup(tls, i) ==
    /\ IsClauses(tls[i])
    /\ i > 1 =>
          ~(/\ IsClauses(tls[i - 1])
            /\ tls[i - 1].name = tls[i].name
            /\ tls[i - 1].arity = tls[i].arity)

\* C36: when consume has returned Ok, with the end of the input or with a
\* declaration, every clause read so far is in exactly one result, the
\* results holding the clauses in source order; each result is a group of
\* adjacent clauses of one name and arity, and there is one result for each
\* place where such a group starts, so none is left unflushed.
C36_EveryGroupFlushed ==
    bw_ret \in {"None", "Declaration"} =>
        /\ Flatten(bw_results) = ClausesOf(ClauseEntries(Read))
        /\ \A i \in 1..Len(bw_results) :
              /\ bw_results[i] # <<>>
              /\ \A j \in 1..Len(bw_results[i]) :
                    /\ bw_results[i][j].name = bw_results[i][1].name
                    /\ ClauseArity(bw_results[i][j]) = ClauseArity(bw_results[i][1])
        /\ Len(bw_results) = Cardinality({i \in 1..Len(Read) : StartsGroup(Read, i)})

\* consume has returned a declaration read right after two clauses of one
\* predicate, which are the last result
C36_Witness ==
    /\ bw_ret = "Declaration"
    /\ Len(Read) >= 3
    /\ IsClauses(Read[Len(Read) - 1])
    /\ IsClauses(Read[Len(Read) - 2])
    /\ bw_results # <<>>
    /\ Len(bw_results[Len(bw_results)]) >= 2


(***************************************************************************)
(* C37: an if-then among the goals of a body (toplevel.rs).                *)
(***************************************************************************)
\* the goals s as terms, a cut of s coming out as the term cut
GoalsAs(s, cut) ==
    [i \in 1..Len(s) |-> IF s[i] = "!" THEN cut ELSE Atom(s[i])]

\* the body read is  b, (c -> t)
GoalIfThen(c, t) == BodyRead = Cl(",", <<Atom("b"), IfThen(ConjTerm(c), ConjTerm(t))>>)

VerifyAttrInterrupt(p) == [k |-> "VerifyAttrInterrupt", cn |-> 0, p |-> p]

\* p += n on a CodePtr: a local pointer moves on by n, a built-in or call/N
\* pointer becomes the local pointer it carries moved on by n, and an
\* interrupt pointer stays
CodePtr_add(ptr, n) ==
    CASE ptr.k = "VerifyAttrInterrupt" -> ptr
      [] ptr.k \in {"BuiltInClause", "CallN"} -> DirEntry(ptr.p + n)
      [] OTHER -> PtrAdd(ptr, n)

\* return_from_clause! stepping on whatever lco is
return_from_clause_stepping(lco, m) ==
    IF m.p.k = "VerifyAttrInterrupt" THEN m
    ELSE [m EXCEPT !.p = CodePtr_add(@, 1)]

\* the machine state return_from_clause! leaves; it returns Ok(())
return_from_clause(lco, m) ==
    IF m.p.k = "VerifyAttrInterrupt" THEN m
    ELSE IF lco THEN [m EXCEPT !.p = m.cp]
    ELSE [m EXCEPT !.p = CodePtr_add(@, 1)]

\* the greatest offset of the pointers tried
MaxOffset == 2

\* the local pointers CP is drawn from
ReturnLocals ==
    {DirEntry(i) : i \in 0..MaxOffset}
    \cup {TopLevel(0, i) : i \in 0..MaxOffset}
    \cup {UserTermExpansion(i) : i \in 0..MaxOffset}

\* the pointers P is drawn from
ReturnPtrs ==
    ReturnLocals
    \cup {BuiltInClause(i) : i \in 0..MaxOffset}
    \cup {CallN(i) : i \in 0..MaxOffset}
    \cup {VerifyAttrInterrupt(i) : i \in 0..MaxOffset}

NoReturn == [done |-> FALSE, pre |-> MachineState_new]

\* a built-in clause, called by the CallClause whose lco is rc_lco, has
\* succeeded and returns
ReturnFromClause ==
    /\ ~rc_call.done
    /\ rc_ms' = return_from_clause(rc_lco, rc_ms)
    /\ rc_call' = [done |-> TRUE, pre |-> rc_ms]
    /\ UNCHANGED <<besides_clausereturn, rc_lco>>

InitReturn ==
    /\ \E p \in ReturnPtrs, cp \in ReturnLocals :
          rc_ms = [MachineState_new EXCEPT !.p = p, !.cp = cp]
    /\ rc_lco \in BOOLEAN
    /\ rc_call = NoReturn
    /\ Rest_clausereturn

SpecReturn == InitReturn /\ [][ReturnFromClause]_vars

\* P before the return is an interrupt pointer
Interrupted == rc_call.pre.p.k = "VerifyAttrInterrupt"

\* C38: when a built-in clause has returned through return_from_clause,
\* P is the CP saved before if the clause was called as a last call, and
\* otherwise the local pointer one after the one P stood at or carried;
\* if P was a VerifyAttrInterrupt pointer it is as before; no other
\* register has changed.
C38_ReturnFromClause ==
    rc_call.done =>
        /\ rc_ms = [rc_call.pre EXCEPT !.p = rc_ms.p]
        /\ Interrupted => rc_ms.p = rc_call.pre.p
        /\ (~Interrupted /\ rc_lco) => rc_ms.p = rc_call.pre.cp
        /\ (~Interrupted /\ ~rc_lco) =>
              /\ rc_ms.p.p = rc_call.pre.p.p + 1
              /\ rc_ms.p.cn = rc_call.pre.p.cn
              /\ rc_ms.p.k = IF IsLocal(rc_call.pre.p) THEN rc_call.pre.p.k
                             ELSE "DirEntry"

\* a built-in called as a last call has returned to a CP that is not the
\* instruction after the call
C38_Witness ==
    /\ rc_call.done
    /\ rc_lco
    /\ rc_call.pre.p.k = "BuiltInClause"
    /\ rc_ms.p = rc_call.pre.cp
    /\ rc_ms.p # DirEntry(rc_call.pre.p.p + 1)

============================================================================
